---- MODULE Spec2Model ----
(***************************************************************************)
(* Model of the beats record store (github.com/bierlingm/beats):           *)
(* the canonical JSONL log (internal/store/jsonl.go), the identifier       *)
(* scheme (internal/beat/schema.go) and the commands that create, link     *)
(* and delete records through it (internal/cli, internal/hooks).           *)
(*                                                                         *)
(* Callers are goroutines sharing one *JSONLStore.  Every critical section *)
(* of the store that runs under s.mu is one action, except the rewrite of  *)
(* rewriteUnlocked, whose file-system steps (create the temp file, write   *)
(* each line, close, rename) are separate actions that all run while the   *)
(* caller holds the write lock.  An operation ends in pc = "done" with its *)
(* result in call[p]; Return takes the caller back to "idle".              *)
(***************************************************************************)
EXTENDS Integers, Sequences, FiniteSets, TLC

VARIABLES
    now,        \* the wall clock, as read by time.Now().UTC()
    fileExists, \* whether beats.jsonl exists
    file,       \* the lines of beats.jsonl, one JSON object per line
    tmpExists,  \* whether beats.jsonl.tmp exists
    tmp,        \* the lines of beats.jsonl.tmp
    mu,         \* holder of the write side of JSONLStore.mu, or "none"
    pc,         \* each caller's position
    seq,        \* each caller's result of NextSequence
    beats,      \* each caller's slice handed to rewriteUnlocked
    call,       \* each caller's current operation, its arguments and result
    processed,  \* session ids listed in the session-end hook's processed file
    retired,    \* history: the ids deleted so far (recorded by RwRenameRetire)
    db,         \* beats.db: the rows of table beats, the last_sync marker
    mtime,      \* modification time of beats.jsonl
    emb,        \* the embedding store, its two files, and the batch that fills it
    target      \* the lines of the log of the directory that Move writes to

vars == <<now, fileExists, file, tmpExists, tmp, mu, pc, seq, beats, call,
          processed, retired, db, mtime, emb, target>>

(***************************************************************************)
(* Bounds.                                                                 *)
(***************************************************************************)
MaxTime == 2        \* the clock runs over 0..MaxTime
TicksPerDay == 2    \* clock ticks in one calendar day
MaxRecs == 2        \* lines the log may hold
MaxSeq == 3         \* sequence numbers handed out stay within 1..MaxSeq
MaxSearchRecs == 21 \* beats in a log that Search is applied to
MaxLines == 3       \* lines of a log that was edited from outside

Procs == {"p1", "p2"}
Times == 0..MaxTime
Contents == {"alpha", "beta"}
BeadIDs == {"bd-1", "bd-2"}
SessionIDs == {"s1"}

\* t.Format("20060102"): the calendar day of an instant.
FormatDate(t) == t \div TicksPerDay

(***************************************************************************)
(* Go slices: nil and empty-but-allocated are different values.            *)
(***************************************************************************)
Nil == [nil |-> TRUE, elems |-> <<>>]
Slice(s) == [nil |-> FALSE, elems |-> s]

(***************************************************************************)
(* Identifiers: fmt.Sprintf("beat-%s-%03d", date, seq).  The text after    *)
(* the second dash is kept as its decimal digits, so that formatting and   *)
(* strconv.Atoi are two different computations.                            *)
(***************************************************************************)
RECURSIVE Digits(_)
Digits(n) == IF n < 10 THEN <<n>> ELSE Append(Digits(n \div 10), n % 10)

\* %03d: at least three digits, zero padded.
Pad3(n) ==
    LET d == Digits(n)
    IN  IF Len(d) = 1 THEN <<0, 0>> \o d
        ELSE IF Len(d) = 2 THEN <<0>> \o d
        ELSE d

GenerateIDWithSequence(t, n) == [date |-> FormatDate(t), digits |-> Pad3(n)]

\* strconv.Atoi on the digits that follow the prefix.
RECURSIVE Atoi(_)
Atoi(d) == IF Len(d) = 0 THEN 0
           ELSE 10 * Atoi(SubSeq(d, 1, Len(d) - 1)) + d[Len(d)]

NoID == [date |-> -1, digits |-> <<>>]

(***************************************************************************)
(* beat.Beat, and its JSON object.  References and LinkedBeads carry       *)
(* `omitempty`: a slice of length 0, nil or not, is left out of the        *)
(* object, and a key that is absent decodes to a nil slice.  time.Time     *)
(* encodes as RFC 3339 with nanoseconds, which keeps the instant.          *)
(***************************************************************************)
Beat(id, created, updated, label, content, refs, links, session) ==
    [id |-> id, created_at |-> created, updated_at |-> updated,
     label |-> label, content |-> content,
     references |-> refs, linked_beads |-> links, session_id |-> session]

NoBeat == Beat(NoID, 0, 0, "", "", Nil, Nil, "")

Omitted == [present |-> FALSE, items |-> <<>>]
Present(s) == [present |-> TRUE, items |-> s]

OmitEmpty(sl) == IF Len(sl.elems) = 0 THEN Omitted ELSE Present(sl.elems)
DecodeSlice(f) == IF f.present THEN Slice(f.items) ELSE Nil

\* json.Marshal(b)
Marshal(b) ==
    [id |-> b.id, created_at |-> b.created_at, updated_at |-> b.updated_at,
     label |-> b.label, content |-> b.content,
     references |-> OmitEmpty(b.references),
     linked_beads |-> OmitEmpty(b.linked_beads),
     session_id |-> b.session_id]

\* json.Unmarshal(line, &b)
Unmarshal(o) ==
    Beat(o.id, o.created_at, o.updated_at, o.label, o.content,
         DecodeSlice(o.references), DecodeSlice(o.linked_beads), o.session_id)

(***************************************************************************)
(* Reads.                                                                  *)
(***************************************************************************)
\* A line of the log is the object json.Marshal wrote, or, after the file was
\* edited from outside, a blank line, text that is not a JSON object, or a
\* line longer than the 64 KiB a bufio.Scanner hands out.
BlankLine == [kind |-> "blank"]
GarbageLine == [kind |-> "garbage"]
LongLine == [kind |-> "long"]
TooLong(l) == l = LongLine         \* scanner.Scan stops: bufio.ErrTooLong
IsBlank(l) == l = BlankLine        \* strings.TrimSpace(line) == ""
Parses(l) == l # GarbageLine       \* json.Unmarshal returns no error
IsRecord(l) == ~TooLong(l) /\ ~IsBlank(l) /\ Parses(l)

ParseError == "failed to parse beat"
ReadError == "failed to read beats file"

\* The scanner loop of readAllUnlocked from physical line i on.
RECURSIVE ScanFrom(_, _, _)
ScanFrom(lines, i, acc) ==
    IF i > Len(lines) THEN [err |-> "", line |-> 0, beats |-> acc]
    ELSE IF TooLong(lines[i])
         THEN [err |-> ReadError, line |-> 0, beats |-> <<>>]
    ELSE IF IsBlank(lines[i]) THEN ScanFrom(lines, i + 1, acc)
    ELSE IF ~Parses(lines[i])
         THEN [err |-> ParseError, line |-> i, beats |-> <<>>]
    ELSE ScanFrom(lines, i + 1, Append(acc, Unmarshal(lines[i])))

\* readAllUnlocked on given lines: a missing file is an empty store.
readAllUnlocked(exists, lines) ==
    IF ~exists THEN [err |-> "", line |-> 0, beats |-> <<>>]
    ELSE ScanFrom(lines, 1, <<>>)

\* The beats readAllUnlocked returns (none when it returns an error).
ReadLines(exists, lines) == readAllUnlocked(exists, lines).beats

ReadAll == ReadLines(fileExists, file)
ReadErr == readAllUnlocked(fileExists, file)

\* The index of the first beat with the given id, 0 when there is none.
RECURSIVE FindFrom(_, _, _)
FindFrom(bs, id, i) ==
    IF i > Len(bs) THEN 0
    ELSE IF bs[i].id = id THEN i
    ELSE FindFrom(bs, id, i + 1)

\* JSONLStore.Get on a slice read from the log.
GetIn(bs, id) ==
    LET i == FindFrom(bs, id, 1)
    IN  IF i = 0 THEN [found |-> FALSE, beat |-> NoBeat]
        ELSE [found |-> TRUE, beat |-> bs[i]]

Get(id) == GetIn(ReadAll, id)

\* The loop of NextSequence: the largest sequence among the ids that carry
\* the prefix "beat-<today>-".
RECURSIVE MaxSeqFrom(_, _, _, _)
MaxSeqFrom(bs, today, i, maxSeq) ==
    IF i > Len(bs) THEN maxSeq
    ELSE IF bs[i].id.date = today /\ Atoi(bs[i].id.digits) > maxSeq
         THEN MaxSeqFrom(bs, today, i + 1, Atoi(bs[i].id.digits))
         ELSE MaxSeqFrom(bs, today, i + 1, maxSeq)

\* JSONLStore.NextSequence at instant t.
\* A NextSequence that fills gaps: the smallest number no beat of today has.
NextSequenceFillGap(bs, t) ==
    LET used == {Atoi(bs[i].id.digits) :
                    i \in {k \in 1..Len(bs) : bs[k].id.date = FormatDate(t)}}
    IN  CHOOSE n \in 1..(Len(bs) + 1) :
            n \notin used /\ \A m \in 1..(n - 1) : m \in used

NextSequence(bs, t) == MaxSeqFrom(bs, FormatDate(t), 1, 0) + 1

(***************************************************************************)
(* Callers.                                                                *)
(***************************************************************************)
NoCall == [op |-> "none", id |-> NoID, ok |-> FALSE, err |-> "",
           beat |-> NoBeat, arg |-> <<>>, res |-> <<>>, line |-> 0,
           hook |-> "none", env |-> "none", mode |-> "", fallback |-> FALSE]

\* Times of the file system and of the sync marker, in half ticks: a write
\* falls inside its second and the file system keeps the fraction, the
\* marker is time.Now() formatted as RFC3339, which drops it.
ModTime == 2 * now + 1
MarkerTime == 2 * now
NoMarker == -1

(***************************************************************************)
(* The embedding store: embeddings.bin holds the vectors one after the     *)
(* other, embeddings.idx holds the offset of each beat's vector, and the   *)
(* Store object keeps that index in memory.                                *)
(***************************************************************************)
\* Components of a vector; the program's 768, scaled down.
EmbeddingDimensions == 2
BytesPerFloat == 8
VecBytes == EmbeddingDimensions * BytesPerFloat

\* A float64 is its 64 bits, written as eight bytes, most significant first:
\* 0.0, 1.0, -0.0 and a NaN with a payload.
FloatZero == <<0, 0, 0, 0, 0, 0, 0, 0>>
FloatOne == <<63, 240, 0, 0, 0, 0, 0, 0>>
FloatNegZero == <<128, 0, 0, 0, 0, 0, 0, 0>>
FloatNaN == <<127, 248, 0, 0, 0, 0, 0, 1>>

EmbIDs == {"e1", "e2"}

NoVec == [id |-> "", vec |-> <<>>, offset |-> 0]
NoRet == [op |-> "none", id |-> "", ok |-> FALSE, err |-> "", vec |-> <<>>]
NoBatch == [beats |-> <<>>, i |-> 0, computed |-> 0, skipped |-> 0,
            errors |-> 0, sent |-> <<>>, out |-> <<>>]

EmbInit ==
    [bin |-> <<>>,              \* bytes of embeddings.bin
     idx |-> {},                \* <<id, offset>> entries of embeddings.idx
     index |-> {},              \* the map Store.index
     pc |-> "idle",
     caller |-> "none",
     cur |-> NoVec,             \* the Store call in progress
     ret |-> NoRet,             \* what the last call returned
     batch |-> NoBatch,         \* ComputeMissing's loop and its result
     cancelled |-> FALSE,       \* ctx.Done() is closed
     latest |-> {},             \* history: <<id, vec>> of the last good Store
     failed |-> FALSE,          \* history: a Store failed past its length check
     rejected |-> FALSE]        \* history: a Store refused a vector's length

Init ==
    /\ now = 0
    /\ fileExists = FALSE
    /\ file = <<>>
    /\ tmpExists = FALSE
    /\ tmp = <<>>
    /\ mu = "none"
    /\ pc = [p \in Procs |-> "idle"]
    /\ seq = [p \in Procs |-> 0]
    /\ beats = [p \in Procs |-> <<>>]
    /\ call = [p \in Procs |-> NoCall]
    /\ processed = {}
    /\ retired = {}
    /\ db = [rows |-> {}, marker |-> NoMarker]
    /\ mtime = 0
    /\ emb = EmbInit
    /\ target = <<>>

fsVars == <<fileExists, file, tmpExists, tmp, mtime>>

\* JSONLStore.mu: the callers inside ReadAll hold the read side; Lock waits
\* for them and for the writer, RLock for the writer only.
Readers == {q \in Procs : pc[q] = "read"}
CanLock == mu = "none" /\ Readers = {}
CanRLock == mu = "none"

Tick ==
    /\ now < MaxTime
    /\ now' = now + 1
    /\ UNCHANGED <<fsVars, mu, pc, seq, beats, call, processed, retired, db, emb, target>>

\* The caller ends its operation: the result is in call[p].
Finish(p, c) ==
    /\ pc' = [pc EXCEPT ![p] = "done"]
    /\ call' = [call EXCEPT ![p] = c]

Return(p) ==
    /\ pc[p] = "done"
    /\ pc' = [pc EXCEPT ![p] = "idle"]
    /\ call' = [call EXCEPT ![p] = NoCall]
    /\ seq' = [seq EXCEPT ![p] = 0]
    /\ UNCHANGED <<now, fsVars, mu, beats, processed, retired, db, emb, target>>

(***************************************************************************)
(* JSONLStore.Append: under the write lock, open with O_APPEND|O_CREATE,   *)
(* marshal, write the line.  The hooks run after the lock is released and  *)
(* their errors are dropped.                                               *)
(***************************************************************************)
\* What the file system does to the hooks that run after the write: nothing,
\* the synthesis action (synthesis file or script) fails, or the hook state
\* file cannot be written.
HookOutcomes == {"ok", "synthesis", "save"}

\* hooks.NewManager: a missing or unreadable config or state file is replaced
\* by defaults, the error returned is always nil.
NewManager == [err |-> ""]

\* Manager.OnBeatAdded: the error of checkSynthesisHook, else of saveState.
OnBeatAdded(outcome) ==
    IF outcome = "synthesis" THEN "synthesis hook failed"
    ELSE IF outcome = "save" THEN "failed to write hook state"
    ELSE ""

\* triggerHooks has no result; this is the error it holds when it returns.
triggerHooks(outcome) ==
    IF NewManager.err # "" THEN NewManager.err ELSE OnBeatAdded(outcome)

\* An Append that returns the error of the hooks.
AppendReturnHookError(hookErr) == hookErr

\* The return of Append after the line was written.
AppendReturn(hookErr) == ""

StoreAppend(p, op, b, ioOK) ==
    /\ CanLock
    /\ IF ioOK
       THEN /\ Len(file) < MaxRecs
            /\ fileExists' = TRUE
            /\ file' = Append(file, Marshal(b))
            /\ mtime' = ModTime
            /\ \E outcome \in HookOutcomes :
                 LET err == AppendReturn(triggerHooks(outcome))
                 IN  Finish(p, [NoCall EXCEPT !.op = op, !.id = b.id,
                                             !.ok = (err = ""), !.err = err,
                                             !.beat = b, !.hook = outcome])
       ELSE /\ UNCHANGED <<fileExists, file, mtime>>
            /\ Finish(p, [NoCall EXCEPT !.op = op, !.id = b.id,
                                        !.err = "failed to open beats file",
                                        !.beat = b])
    /\ UNCHANGED <<now, tmpExists, tmp, mu, seq, beats, processed, retired, db, emb, target>>

(***************************************************************************)
(* HumanCLI.AddWithOptions: NextSequence (read lock), then the beat is     *)
(* built from time.Now() and handed to Append (write lock).                *)
(***************************************************************************)
AddNextSequence(p) ==
    /\ pc[p] = "idle"
    /\ CanRLock
    /\ IF ReadErr.err # ""
       THEN /\ Finish(p, [NoCall EXCEPT !.op = "add", !.err = ReadErr.err,
                                        !.line = ReadErr.line])
            /\ UNCHANGED seq
       ELSE /\ NextSequence(ReadAll, now) <= MaxSeq
            /\ seq' = [seq EXCEPT ![p] = NextSequence(ReadAll, now)]
            /\ pc' = [pc EXCEPT ![p] = "add"]
            /\ call' = [call EXCEPT ![p] = [NoCall EXCEPT !.op = "add"]]
    /\ UNCHANGED <<now, fsVars, mu, beats, processed, retired, db, emb, target>>

AddBeat(content, n, t) ==
    Beat(GenerateIDWithSequence(t, n), t, t, "Manual entry", content,
         Slice(<<>>), Slice(<<>>), "")

AddAppend(p) ==
    /\ pc[p] = "add"
    /\ \E content \in Contents, ioOK \in BOOLEAN :
         StoreAppend(p, "add", AddBeat(content, seq[p], now), ioOK)

\* The same step when the file system does not fail.
AddAppendOK(p) ==
    /\ pc[p] = "add"
    /\ \E content \in Contents :
         StoreAppend(p, "add", AddBeat(content, seq[p], now), TRUE)

(***************************************************************************)
(* RobotCLI.CommitBeat: decode the proposed beat, reject empty content,    *)
(* NextSequence, ProposedBeat.ToBeat, Append.                              *)
(***************************************************************************)
NoTime == -1    \* ProposedBeat.CreatedAt == nil

\* The proposed beats the robot sends: a plain one, a backdated one that
\* carries links, one that names a bead twice, and one dated in the future.
Proposals ==
    { [content |-> "alpha", created_at |-> NoTime, linked_beads |-> Nil],
      [content |-> "beta", created_at |-> 0,
       linked_beads |-> Slice(<<"bd-1">>)],
      [content |-> "beta", created_at |-> NoTime,
       linked_beads |-> Slice(<<"bd-1", "bd-1">>)],
      [content |-> "alpha", created_at |-> MaxTime, linked_beads |-> Nil] }

\* ProposedBeat.ToBeat(seq) at instant t.
ToBeat(prop, n, t) ==
    LET c == IF prop.created_at # NoTime THEN prop.created_at ELSE t
    IN  Beat(GenerateIDWithSequence(c, n), c, c, "Robot", prop.content,
             Nil, prop.linked_beads, "")

CommitReject(p) ==
    /\ pc[p] = "idle"
    /\ Finish(p, [NoCall EXCEPT !.op = "commit", !.err = "content is required"])
    /\ UNCHANGED <<now, fsVars, mu, seq, beats, processed, retired, db, emb, target>>

CommitNextSequence(p) ==
    /\ pc[p] = "idle"
    /\ CanRLock
    /\ IF ReadErr.err # ""
       THEN /\ Finish(p, [NoCall EXCEPT !.op = "commit", !.err = ReadErr.err,
                                        !.line = ReadErr.line])
            /\ UNCHANGED seq
       ELSE /\ NextSequence(ReadAll, now) <= MaxSeq
            /\ seq' = [seq EXCEPT ![p] = NextSequence(ReadAll, now)]
            /\ pc' = [pc EXCEPT ![p] = "commit"]
            /\ call' = [call EXCEPT ![p] = [NoCall EXCEPT !.op = "commit"]]
    /\ UNCHANGED <<now, fsVars, mu, beats, processed, retired, db, emb, target>>

CommitAppend(p) ==
    /\ pc[p] = "commit"
    /\ \E prop \in Proposals, ioOK \in BOOLEAN :
         StoreAppend(p, "commit", ToBeat(prop, seq[p], now), ioOK)

(***************************************************************************)
(* SessionEndRunner.Run: a beat with sequence 1 for today, written by      *)
(* appendBeat straight to beats.jsonl, outside the store and its lock.     *)
(***************************************************************************)
SessionBeat(sid, content, t) ==
    Beat(GenerateIDWithSequence(t, 1), t, t, "Session", content,
         Slice(<<>>), Slice(<<>>), sid)

SessionEnd ==
    \E sid \in SessionIDs, content \in {"beta"} :
        /\ sid \notin processed
        /\ Len(file) < MaxRecs
        /\ fileExists' = TRUE
        /\ file' = Append(file, Marshal(SessionBeat(sid, content, now)))
        /\ mtime' = ModTime
        /\ processed' = processed \cup {sid}
        /\ UNCHANGED <<now, tmpExists, tmp, mu, pc, seq, beats, call, retired, db, emb, target>>

(***************************************************************************)
(* JSONLStore.Update(id, updater): under the write lock, read the log,     *)
(* apply the updater to the first beat with the id, stamp UpdatedAt, and   *)
(* hand the slice to rewriteUnlocked.  The updaters are the one of         *)
(* HumanCLI.Link / RobotCLI.LinkBeat, and one that returns an error.       *)
(***************************************************************************)
LinkArgs == {<<"bd-2", "bd-2">>}

\* The updater of Link and LinkBeat: append the ids the beat does not carry.
RECURSIVE LinkUpdater(_, _)
LinkUpdater(links, ids) ==
    IF Len(ids) = 0 THEN links
    ELSE IF \E k \in 1..Len(links.elems) : links.elems[k] = Head(ids)
         THEN LinkUpdater(links, Tail(ids))
         ELSE LinkUpdater(Slice(Append(links.elems, Head(ids))), Tail(ids))

Updaters ==
    {[kind |-> "link", ids |-> a] : a \in LinkArgs}
        \cup {[kind |-> "fail", ids |-> <<>>]}

\* The ids a caller asks for: those in the log and one that is not.
AbsentID == GenerateIDWithSequence(0, MaxRecs + 2)
KnownIDs ==
    {Unmarshal(file[i]).id : i \in {k \in 1..Len(file) : IsRecord(file[k])}}
        \cup {AbsentID}

\* Lines 301-322 of Update: what is handed to rewriteUnlocked, or the error.
UpdateOutcome(bs, id, upd, t) ==
    LET i == FindFrom(bs, id, 1)
    IN  IF i = 0
        THEN [err |-> "beat not found", beats |-> bs, beat |-> NoBeat]
        ELSE IF upd.kind = "fail"
        THEN [err |-> "updater failed", beats |-> bs, beat |-> NoBeat]
        ELSE LET nb == [bs[i] EXCEPT
                          !.linked_beads = LinkUpdater(@, upd.ids),
                          !.updated_at = t]
             IN  [err |-> "", beats |-> [bs EXCEPT ![i] = nb], beat |-> nb]

\* An Update that does not take the write lock.
UpdateNoLock(p) ==
    /\ pc[p] = "idle"
    /\ \E id \in KnownIDs, upd \in Updaters :
        LET out == UpdateOutcome(ReadAll, id, upd, now)
            c == [NoCall EXCEPT !.op = "update", !.id = id, !.arg = upd.ids,
                                !.err = out.err, !.beat = out.beat]
        IN  IF out.err # ""
            THEN /\ Finish(p, c)
                 /\ UNCHANGED beats
            ELSE /\ pc' = [pc EXCEPT ![p] = "rw_create"]
                 /\ call' = [call EXCEPT ![p] = c]
                 /\ beats' = [beats EXCEPT ![p] = out.beats]
    /\ UNCHANGED <<now, fsVars, mu, seq, processed, retired, db, emb, target>>

\* An Update that stamps and rewrites the log before it looks at the
\* updater's error.
UpdateStampFirst(p) ==
    /\ pc[p] = "idle"
    /\ CanLock
    /\ \E id \in KnownIDs, upd \in Updaters :
        LET bs == ReadAll
            i == FindFrom(bs, id, 1)
            out == UpdateOutcome(bs, id, upd, now)
            c == [NoCall EXCEPT !.op = "update", !.id = id, !.arg = upd.ids,
                                !.err = out.err, !.beat = out.beat]
        IN  IF out.err # ""
            THEN /\ Finish(p, c)
                 /\ file' = IF i = 0 THEN file
                            ELSE [file EXCEPT ![i] =
                                    Marshal([bs[i] EXCEPT !.updated_at = now])]
                 /\ mtime' = IF i = 0 THEN mtime ELSE ModTime
                 /\ UNCHANGED <<mu, beats>>
            ELSE /\ mu' = p
                 /\ pc' = [pc EXCEPT ![p] = "rw_create"]
                 /\ call' = [call EXCEPT ![p] = c]
                 /\ beats' = [beats EXCEPT ![p] = out.beats]
                 /\ UNCHANGED <<file, mtime>>
    /\ UNCHANGED <<now, fileExists, tmpExists, tmp, seq, processed, retired, db, emb, target>>

Update(p) ==
    /\ pc[p] = "idle"
    /\ CanLock
    /\ \E id \in KnownIDs, upd \in Updaters :
        LET out == IF ReadErr.err # ""
                   THEN [err |-> ReadErr.err, beats |-> <<>>, beat |-> NoBeat]
                   ELSE UpdateOutcome(ReadAll, id, upd, now)
            c == [NoCall EXCEPT !.op = "update", !.id = id, !.arg = upd.ids,
                                !.err = out.err, !.beat = out.beat,
                                !.line = ReadErr.line]
        IN  IF out.err # ""
            THEN /\ Finish(p, c)
                 /\ UNCHANGED <<mu, beats>>
            ELSE /\ mu' = p
                 /\ pc' = [pc EXCEPT ![p] = "rw_create"]
                 /\ call' = [call EXCEPT ![p] = c]
                 /\ beats' = [beats EXCEPT ![p] = out.beats]
    /\ UNCHANGED <<now, fsVars, seq, processed, retired, db, emb, target>>

(***************************************************************************)
(* JSONLStore.Delete(id): the same rewrite, without the beats that carry   *)
(* the id; an error when no beat carries it.                               *)
(***************************************************************************)
RECURSIVE Without(_, _)
Without(bs, id) ==
    IF Len(bs) = 0 THEN <<>>
    ELSE IF Head(bs).id = id THEN Without(Tail(bs), id)
    ELSE <<Head(bs)>> \o Without(Tail(bs), id)

Delete(p) ==
    /\ pc[p] = "idle"
    /\ CanLock
    /\ \E id \in KnownIDs :
        LET bs == ReadAll
            c == [NoCall EXCEPT !.op = "delete", !.id = id]
        IN  IF ReadErr.err # ""
            THEN /\ Finish(p, [c EXCEPT !.err = ReadErr.err,
                                        !.line = ReadErr.line])
                 /\ UNCHANGED <<mu, beats>>
            ELSE IF FindFrom(bs, id, 1) = 0
            THEN /\ Finish(p, [c EXCEPT !.err = "beat not found"])
                 /\ UNCHANGED <<mu, beats>>
            ELSE /\ mu' = p
                 /\ pc' = [pc EXCEPT ![p] = "rw_create"]
                 /\ call' = [call EXCEPT ![p] = c]
                 /\ beats' = [beats EXCEPT ![p] = Without(bs, id)]
    /\ UNCHANGED <<now, fsVars, seq, processed, retired, db, emb, target>>

(***************************************************************************)
(* Redate(id, datetime): the record gets the new created_at and an id for  *)
(* the new date whose sequence is the next one for that date in the log as *)
(* it is on disk, and the log is rewritten as by Update.                   *)
(***************************************************************************)
\* A redate that keeps the sequence number the record had.
RedateIDKeepSeq(bs, old, t) == [date |-> FormatDate(t), digits |-> old.digits]

\* The datetimes a redate is given: one of the first day, one of the last.
RedateTimes == {0, MaxTime}

RedateID(bs, old, t) ==
    GenerateIDWithSequence(t, MaxSeqFrom(bs, FormatDate(t), 1, 0) + 1)

Redate(p) ==
    /\ pc[p] = "idle"
    /\ CanLock
    /\ \E id \in KnownIDs, t \in RedateTimes :
        LET bs == ReadAll
            i == FindFrom(bs, id, 1)
            c == [NoCall EXCEPT !.op = "redate", !.id = id, !.arg = <<t>>]
        IN  IF ReadErr.err # ""
            THEN /\ Finish(p, [c EXCEPT !.err = ReadErr.err,
                                        !.line = ReadErr.line])
                 /\ UNCHANGED <<mu, beats>>
            ELSE IF i = 0
            THEN /\ Finish(p, [c EXCEPT !.err = "beat not found"])
                 /\ UNCHANGED <<mu, beats>>
            ELSE LET nb == [bs[i] EXCEPT !.id = RedateID(bs, id, t),
                                         !.created_at = t,
                                         !.updated_at = now]
                 IN  /\ Atoi(nb.id.digits) <= MaxSeq
                     /\ mu' = p
                     /\ pc' = [pc EXCEPT ![p] = "rw_create"]
                     /\ call' = [call EXCEPT ![p] = [c EXCEPT !.beat = nb]]
                     /\ beats' = [beats EXCEPT ![p] = [bs EXCEPT ![i] = nb]]
    /\ UNCHANGED <<now, fsVars, seq, processed, retired, db, emb, target>>

(***************************************************************************)
(* rewriteUnlocked, step by step.  The caller holds the write lock for     *)
(* all of it; every error path removes the temp file and releases the      *)
(* lock (the deferred Unlock of the caller).                               *)
(***************************************************************************)
RwFail(p, msg) ==
    /\ mu' = "none"
    /\ beats' = [beats EXCEPT ![p] = <<>>]
    /\ Finish(p, [call[p] EXCEPT !.err = msg, !.beat = NoBeat])

\* os.Create(tmpPath): creates or truncates beats.jsonl.tmp.
RwCreate(p) ==
    /\ pc[p] = "rw_create"
    /\ \E ioOK \in BOOLEAN :
        IF ioOK
        THEN /\ tmpExists' = TRUE
             /\ tmp' = <<>>
             /\ pc' = [pc EXCEPT ![p] = "rw_write"]
             /\ UNCHANGED <<mu, beats, call>>
        ELSE /\ RwFail(p, "failed to create temp file")
             /\ UNCHANGED <<tmpExists, tmp>>
    /\ UNCHANGED <<now, fileExists, file, mtime, seq, processed, retired, db, emb, target>>

\* A rewrite that writes the lines over the log itself.
RwWriteInPlace(p) ==
    /\ pc[p] = "rw_write"
    /\ Len(tmp) < Len(beats[p])
    /\ tmp' = Append(tmp, Marshal(beats[p][Len(tmp) + 1]))
    /\ file' = tmp'
    /\ mtime' = ModTime
    /\ UNCHANGED <<now, fileExists, tmpExists, mu, pc, beats, call, seq,
                   processed, retired, db, emb, target>>

\* One turn of the loop: marshal the next beat and write its line.
RwWrite(p) ==
    /\ pc[p] = "rw_write"
    /\ Len(tmp) < Len(beats[p])
    /\ \E ioOK \in BOOLEAN :
        IF ioOK
        THEN /\ tmp' = Append(tmp, Marshal(beats[p][Len(tmp) + 1]))
             /\ UNCHANGED <<tmpExists, mu, pc, beats, call>>
        ELSE /\ tmpExists' = FALSE
             /\ tmp' = <<>>
             /\ RwFail(p, "failed to write beat")
    /\ UNCHANGED <<now, fileExists, file, mtime, seq, processed, retired, db, emb, target>>

\* A rewrite that stops one beat short of the slice.
RwCloseShort(p) ==
    /\ pc[p] = "rw_write"
    /\ Len(tmp) + 1 >= Len(beats[p])
    /\ pc' = [pc EXCEPT ![p] = "rw_rename"]
    /\ UNCHANGED <<now, fsVars, mu, beats, call, seq, processed, retired, db, emb, target>>

\* f.Close() after the last line.
RwClose(p) ==
    /\ pc[p] = "rw_write"
    /\ Len(tmp) = Len(beats[p])
    /\ \E ioOK \in BOOLEAN :
        IF ioOK
        THEN /\ pc' = [pc EXCEPT ![p] = "rw_rename"]
             /\ UNCHANGED <<tmpExists, tmp, mu, beats, call>>
        ELSE /\ tmpExists' = FALSE
             /\ tmp' = <<>>
             /\ RwFail(p, "failed to close temp file")
    /\ UNCHANGED <<now, fileExists, file, mtime, seq, processed, retired, db, emb, target>>

\* os.Rename(tmpPath, s.filePath): the temp file takes the log's place.
Rename(p) ==
    /\ pc[p] = "rw_rename"
    /\ \E ioOK \in BOOLEAN :
        IF ioOK
        THEN /\ fileExists' = TRUE
             /\ file' = tmp
             /\ mtime' = ModTime
             /\ mu' = "none"
             /\ beats' = [beats EXCEPT ![p] = <<>>]
             /\ Finish(p, [call[p] EXCEPT !.ok = TRUE])
        ELSE /\ UNCHANGED <<fileExists, file, mtime>>
             /\ RwFail(p, "failed to rename temp file")
    /\ tmpExists' = FALSE
    /\ tmp' = <<>>
    /\ UNCHANGED <<now, seq, processed>>

RwRename(p) == Rename(p) /\ UNCHANGED <<retired, db, emb, target>>

\* The same step, with the id of a completed Delete added to the history.
RwRenameRetire(p) ==
    /\ Rename(p)
    /\ retired' = IF call'[p].op = "delete" /\ call'[p].ok
                  THEN retired \cup {call'[p].id}
                  ELSE retired
    /\ UNCHANGED <<db, emb, target>>

(***************************************************************************)
(* JSONLStore.ReadAll: the read lock is held from before the file is       *)
(* opened until the scanner has reached the end of the file or a line      *)
(* that does not parse.  call[p].line is lineNum, beats[p] the slice.      *)
(***************************************************************************)
ReadAllBegin(p) ==
    /\ pc[p] = "idle"
    /\ CanRLock
    /\ IF ~fileExists
       THEN Finish(p, [NoCall EXCEPT !.op = "readall", !.ok = TRUE])
       ELSE /\ pc' = [pc EXCEPT ![p] = "read"]
            /\ call' = [call EXCEPT ![p] = [NoCall EXCEPT !.op = "readall"]]
    /\ UNCHANGED <<now, fsVars, mu, seq, beats, processed, retired, db, emb, target>>

ReadAllLine(p) ==
    /\ pc[p] = "read"
    /\ call[p].line < Len(file)
    /\ LET n == call[p].line + 1
       IN  IF TooLong(file[n])
           THEN /\ Finish(p, [call[p] EXCEPT !.err = ReadError, !.line = 0])
                /\ beats' = [beats EXCEPT ![p] = <<>>]
           ELSE IF IsBlank(file[n])
           THEN /\ call' = [call EXCEPT ![p].line = n]
                /\ UNCHANGED <<pc, beats>>
           ELSE IF ~Parses(file[n])
           THEN /\ Finish(p, [call[p] EXCEPT !.err = ParseError, !.line = n])
                /\ beats' = [beats EXCEPT ![p] = <<>>]
           ELSE /\ call' = [call EXCEPT ![p].line = n]
                /\ beats' = [beats EXCEPT ![p] = Append(@, Unmarshal(file[n]))]
                /\ UNCHANGED pc
    /\ UNCHANGED <<now, fsVars, mu, seq, processed, retired, db, emb, target>>

ReadAllEnd(p) ==
    /\ pc[p] = "read"
    /\ call[p].line >= Len(file)
    /\ Finish(p, [call[p] EXCEPT !.ok = TRUE, !.res = beats[p], !.line = 0])
    /\ beats' = [beats EXCEPT ![p] = <<>>]
    /\ UNCHANGED <<now, fsVars, mu, seq, processed, retired, db, emb, target>>

ReadAllSteps(p) ==
    \/ ReadAllBegin(p)
    \/ ReadAllLine(p)
    \/ ReadAllEnd(p)

\* JSONLStore.Get(id): ReadAll, then the first beat that carries the id.
GetCall(p) ==
    /\ pc[p] = "idle"
    /\ CanRLock
    /\ \E id \in KnownIDs :
        LET c == [NoCall EXCEPT !.op = "get", !.id = id]
            g == GetIn(ReadAll, id)
        IN  IF ReadErr.err # ""
            THEN Finish(p, [c EXCEPT !.err = ReadErr.err,
                                     !.line = ReadErr.line])
            ELSE IF g.found
            THEN Finish(p, [c EXCEPT !.ok = TRUE, !.beat = g.beat])
            ELSE Finish(p, [c EXCEPT !.err = "beat not found"])
    /\ UNCHANGED <<now, fsVars, mu, seq, beats, processed, retired, db, emb, target>>

\* The log is edited from outside the program while no call is inside the
\* store: a blank line, a line that is not JSON or an over-long line is put
\* at some position.
Corrupt ==
    /\ mu = "none"
    /\ Readers = {}
    /\ Len(file) < MaxLines
    /\ \E l \in {BlankLine, GarbageLine, LongLine}, i \in 0..Len(file) :
         file' = SubSeq(file, 1, i) \o <<l>> \o SubSeq(file, i + 1, Len(file))
    /\ fileExists' = TRUE
    /\ mtime' = ModTime
    /\ UNCHANGED <<now, tmpExists, tmp, mu, pc, seq, beats, call, processed,
                   retired, db, emb, target>>

(***************************************************************************)
(* JSONLStore.Search.  The text of a content or of a label is its sequence *)
(* of characters, so that strings.ToLower and strings.Contains are          *)
(* computed.  A score is in tenths: 5 for one field, 10 for both.           *)
(***************************************************************************)
Text(str) ==
    CASE str = "alpha" -> <<"a", "l", "p", "h", "a">>
      [] str = "beta" -> <<"b", "e", "t", "a">>
      [] str = "Manual entry" ->
            <<"M", "a", "n", "u", "a", "l", " ", "e", "n", "t", "r", "y">>
      [] str = "Robot" -> <<"R", "o", "b", "o", "t">>
      [] str = "Session" -> <<"S", "e", "s", "s", "i", "o", "n">>
      [] OTHER -> <<>>

LowerChar(c) ==
    CASE c = "A" -> "a" [] c = "L" -> "l" [] c = "M" -> "m"
      [] c = "R" -> "r" [] c = "S" -> "s" [] c = "T" -> "t"
      [] OTHER -> c

ToLower(cs) == [i \in 1..Len(cs) |-> LowerChar(cs[i])]

Contains(hay, needle) ==
    \E i \in 0..(Len(hay) - Len(needle)) :
        SubSeq(hay, i + 1, i + Len(needle)) = needle

Queries == {<<>>, <<"A", "L">>, <<"t", "a">>, <<"m">>, <<"z">>}

SearchScore(b, query) ==
    (IF Contains(ToLower(Text(b.content)), ToLower(query)) THEN 5 ELSE 0)
        + (IF Contains(ToLower(Text(b.label)), ToLower(query)) THEN 5 ELSE 0)

\* The loop of Search: a result for every beat with a score above 0.
RECURSIVE SearchScan(_, _, _)
SearchScan(bs, query, i) ==
    IF i > Len(bs) THEN <<>>
    ELSE IF SearchScore(bs[i], query) > 0
         THEN <<[id |-> bs[i].id, score |-> SearchScore(bs[i], query),
                 content |-> bs[i].content, label |-> bs[i].label]>>
                  \o SearchScan(bs, query, i + 1)
         ELSE SearchScan(bs, query, i + 1)

\* sort.Slice(results, score descending).  Up to 12 elements the library
\* runs an insertion sort, and it leaves a slice that is already in order
\* as it is; otherwise its quicksort gives no order among equal scores, and
\* two of the orders it may leave are kept: the one of the scan and its
\* reverse.
InsertionSortMax == 12

InOrder(rs) == \A i \in 1..(Len(rs) - 1) : rs[i].score >= rs[i + 1].score

RECURSIVE InsertByScore(_, _)
InsertByScore(sorted, x) ==
    IF Len(sorted) = 0 THEN <<x>>
    ELSE IF x.score > sorted[Len(sorted)].score
         THEN Append(InsertByScore(SubSeq(sorted, 1, Len(sorted) - 1), x),
                     sorted[Len(sorted)])
         ELSE Append(sorted, x)

RECURSIVE InsertionSort(_, _)
InsertionSort(rs, i) ==
    IF i = 0 THEN <<>>
    ELSE InsertByScore(InsertionSort(rs, i - 1), rs[i])

Reverse(rs) == [i \in 1..Len(rs) |-> rs[Len(rs) + 1 - i]]

SortSlice(rs) ==
    IF Len(rs) <= InsertionSortMax \/ InOrder(rs)
    THEN {InsertionSort(rs, Len(rs))}
    ELSE {InsertionSort(rs, Len(rs)),
          InsertionSort(Reverse(rs), Len(rs))}

\* A cut that puts the default limit in the place of 0 and of a negative one.
TruncateDefault(rs, maxResults) ==
    LET limit == IF maxResults > 0 THEN maxResults ELSE 20
    IN  IF Len(rs) > limit THEN SubSeq(rs, 1, limit) ELSE rs

\* results[:maxResults] when maxResults > 0 and there are more.
Truncate(rs, maxResults) ==
    IF maxResults > 0 /\ Len(rs) > maxResults
    THEN SubSeq(rs, 1, maxResults)
    ELSE rs

\* The outcomes of Search(query, maxResults) on the beats of the log.
Search(bs, query, maxResults) ==
    {Truncate(rs, maxResults) : rs \in SortSlice(SearchScan(bs, query, 1))}

\* The limits callers pass: HumanCLI.SearchAll passes 0, the others a flag.
DefaultMaxResults == 20
Limits == {-1, 0, 1, 2, DefaultMaxResults}

SearchCall(p) ==
    /\ pc[p] = "idle"
    /\ CanRLock
    /\ \E query \in Queries, maxResults \in Limits :
        LET c == [NoCall EXCEPT !.op = "search",
                                !.arg = <<query, maxResults>>]
        IN  IF ReadErr.err # ""
            THEN Finish(p, [c EXCEPT !.err = ReadErr.err,
                                     !.line = ReadErr.line])
            ELSE \E rs \in Search(ReadAll, query, maxResults) :
                    Finish(p, [c EXCEPT !.ok = TRUE, !.res = rs])
    /\ UNCHANGED <<now, fsVars, mu, seq, beats, processed, retired, db, emb, target>>

(***************************************************************************)
(* RobotCLI.Search and HybridSearch.  What the semantic path meets is an   *)
(* input: the stage at which it stops (the cache directory cannot be made, *)
(* the embedding provider does not answer, the query cannot be embedded,   *)
(* or none) and, per beat, the similarity to the query in tenths, 0 for a  *)
(* beat whose embedding fails.  The log is read once for the whole call.   *)
(***************************************************************************)
SemanticStages == {"mkdir", "unavailable", "embed", "ok"}
SimValues == {0, 3, 8}

\* The loop of SemanticSearcher.Search: beats without an embedding are left
\* out.
RECURSIVE SemanticScan(_, _, _)
SemanticScan(bs, sims, i) ==
    IF i > Len(bs) THEN <<>>
    ELSE IF sims[i] = 0 THEN SemanticScan(bs, sims, i + 1)
    ELSE <<[id |-> bs[i].id, score |-> sims[i],
            content |-> bs[i].content, label |-> bs[i].label]>>
            \o SemanticScan(bs, sims, i + 1)

\* SemanticSearcher.Search; maxResults is positive here (RobotCLI.Search).
SemanticSearch(read, maxResults, stage, sims) ==
    IF stage = "embed"
    THEN {[err |-> "failed to embed query", res |-> <<>>]}
    ELSE IF read.err # "" THEN {[err |-> read.err, res |-> <<>>]}
    ELSE {[err |-> "",
           res |-> IF Len(rs) > maxResults THEN SubSeq(rs, 1, maxResults)
                   ELSE rs] : rs \in SortSlice(SemanticScan(read.beats, sims, 1))}

\* The keyword branch of HybridSearch: jsonl.Search, its error returned.
KeywordOutput(read, query, maxResults, fallback) ==
    IF read.err # ""
    THEN {[err |-> read.err, mode |-> "", fallback |-> FALSE, res |-> <<>>]}
    ELSE {[err |-> "", mode |-> "keyword", fallback |-> fallback, res |-> rs] :
            rs \in Search(read.beats, query, maxResults)}

\* A HybridSearch that reports a substitute as what was asked for.
HybridSearchSilent(read, query, maxResults, semantic, stage, sims) ==
    KeywordOutput(read, query, maxResults, FALSE)

\* A HybridSearch that gives up when the semantic path fails.
HybridSearchNoFallback(read, query, maxResults, semantic, stage, sims) ==
    IF ~semantic THEN KeywordOutput(read, query, maxResults, FALSE)
    ELSE IF stage # "ok"
    THEN {[err |-> "semantic search failed", mode |-> "",
           fallback |-> FALSE, res |-> <<>>]}
    ELSE KeywordOutput(read, query, maxResults, TRUE)

HybridSearch(read, query, maxResults, semantic, stage, sims) ==
    IF ~semantic THEN KeywordOutput(read, query, maxResults, FALSE)
    ELSE IF stage = "mkdir" THEN KeywordOutput(read, query, maxResults, TRUE)
    ELSE IF stage = "unavailable"
    THEN KeywordOutput(read, query, maxResults, TRUE)
    ELSE UNION {IF sem.err # ""
                THEN KeywordOutput(read, query, maxResults, TRUE)
                ELSE {[err |-> "", mode |-> "semantic", fallback |-> FALSE,
                       res |-> sem.res]} :
                    sem \in SemanticSearch(read, maxResults, stage, sims)}

\* RobotCLI.Search: the empty query is refused, a limit of 0 or below becomes
\* 20, and an error of HybridSearch is reported as "search failed".
RobotSearch(p) ==
    /\ pc[p] = "idle"
    /\ CanRLock
    /\ \E query \in Queries, max \in Limits, semantic \in BOOLEAN,
          stage \in SemanticStages, sims \in [1..Len(ReadAll) -> SimValues] :
        LET maxResults == IF max <= 0 THEN DefaultMaxResults ELSE max
            c == [NoCall EXCEPT !.op = "robot_search",
                                !.arg = <<query, maxResults, semantic>>,
                                !.env = IF semantic THEN stage ELSE "none"]
        IN  IF query = <<>>
            THEN Finish(p, [c EXCEPT !.err = "query is required"])
            ELSE \E out \in HybridSearch(ReadErr, query, maxResults, semantic,
                                          stage, sims) :
                    Finish(p, [c EXCEPT
                        !.ok = (out.err = ""),
                        !.err = IF out.err = "" THEN "" ELSE "search failed",
                        !.mode = out.mode, !.fallback = out.fallback,
                        !.res = out.res])
    /\ UNCHANGED <<now, fsVars, mu, seq, beats, processed, retired, db, emb, target>>

(***************************************************************************)
(* SQLiteStore.  Table beats has the id as primary key; a row holds the    *)
(* columns Sync fills.  Sync reads the log through ReadAll and then runs   *)
(* one transaction: DELETE FROM beats, INSERT OR REPLACE per beat, the     *)
(* marker, Commit; on an error the deferred Rollback undoes all of it.     *)
(***************************************************************************)
Row(b) ==
    [id |-> b.id, created_at |-> b.created_at, updated_at |-> b.updated_at,
     content |-> b.content, impetus_label |-> b.label,
     references_json |-> b.references, linked_beads_json |-> b.linked_beads]

\* INSERT OR REPLACE INTO beats: a row with the same id is replaced.
InsertOrReplace(rows, r) == {x \in rows : x.id # r.id} \cup {r}

RECURSIVE InsertAll(_, _, _)
InsertAll(rows, bs, i) ==
    IF i > Len(bs) THEN rows
    ELSE InsertAll(InsertOrReplace(rows, Row(bs[i])), bs, i + 1)

\* SyncIfNeeded up to the end of the ReadAll of Sync.
SyncIfNeeded(p) ==
    /\ pc[p] = "idle"
    /\ LET c == [NoCall EXCEPT !.op = "sync"]
       IN  IF ~fileExists
           THEN /\ Finish(p, [c EXCEPT !.ok = TRUE, !.mode = "no log"])
                /\ UNCHANGED beats
           ELSE IF db.marker = NoMarker \/ mtime > db.marker
           THEN /\ CanRLock
                /\ IF ReadErr.err # ""
                   THEN /\ Finish(p, [c EXCEPT !.err = "failed to read jsonl",
                                               !.line = ReadErr.line])
                        /\ UNCHANGED beats
                   ELSE /\ pc' = [pc EXCEPT ![p] = "sync"]
                        /\ call' = [call EXCEPT ![p] = c]
                        /\ beats' = [beats EXCEPT ![p] = ReadAll]
           ELSE /\ Finish(p, [c EXCEPT !.ok = TRUE, !.mode = "current"])
                /\ UNCHANGED beats
    /\ UNCHANGED <<now, fsVars, mu, seq, processed, retired, db, emb, target>>

\* The transaction of Sync.
SyncCommit(p) ==
    /\ pc[p] = "sync"
    /\ \E ioOK \in BOOLEAN :
        IF ioOK
        THEN /\ db' = [rows |-> InsertAll({}, beats[p], 1),
                       marker |-> MarkerTime]
             /\ Finish(p, [call[p] EXCEPT !.ok = TRUE, !.mode = "rebuilt"])
        ELSE /\ UNCHANGED db
             /\ Finish(p, [call[p] EXCEPT !.err = "failed to insert beat"])
    /\ beats' = [beats EXCEPT ![p] = <<>>]
    /\ UNCHANGED <<now, fsVars, mu, seq, processed, retired, emb, target>>

(***************************************************************************)
(* HumanCLI.Move seen from the target store: the beat of another store is  *)
(* appended with the id and timestamps it has.                             *)
(***************************************************************************)
ForeignBeats ==
    {AddBeat(c, n, t) : c \in {"beta"}, n \in 1..MaxSeq, t \in Times}

\* A Move into this store of a beat that is not dated today.
MoveInOtherDate(p) ==
    /\ pc[p] = "idle"
    /\ \E b \in ForeignBeats :
        /\ b.id.date # FormatDate(now)
        /\ StoreAppend(p, "move", b, TRUE)

\* The clock, when no caller is between NextSequence and Append.
TickIdle ==
    /\ \A p \in Procs : pc[p] \notin {"add", "commit"}
    /\ Tick

Creates(p) ==
    \/ AddNextSequence(p)
    \/ AddAppend(p)
    \/ CommitReject(p)
    \/ CommitNextSequence(p)
    \/ CommitAppend(p)

RewriteSteps(p) ==
    \/ RwCreate(p)
    \/ RwWrite(p)
    \/ RwClose(p)

\* One caller with every operation, the session-end hook and the clock.
Next ==
    \/ Tick
    \/ SessionEnd
    \/ \E p \in {"p1"} :
        \/ Creates(p)
        \/ Update(p)
        \/ Delete(p)
        \/ RewriteSteps(p)
        \/ RwRename(p)
        \/ Return(p)

Spec == Init /\ [][Next]_vars

\* One caller that adds, links and deletes; nothing else writes the log.
NextStore ==
    \/ Tick
    \/ \E p \in {"p1"} :
        \/ AddNextSequence(p)
        \/ AddAppend(p)
        \/ Update(p)
        \/ Delete(p)
        \/ RewriteSteps(p)
        \/ RwRename(p)
        \/ Return(p)

SpecStore == Init /\ [][NextStore]_vars

\* The same, with the deleted ids recorded.
NextRetire ==
    \/ Tick
    \/ \E p \in {"p1"} :
        \/ AddNextSequence(p)
        \/ AddAppend(p)
        \/ Update(p)
        \/ Delete(p)
        \/ RewriteSteps(p)
        \/ RwRenameRetire(p)
        \/ Return(p)

SpecRetire == Init /\ [][NextRetire]_vars

\* Two callers that add on the same store.
NextRace ==
    \/ Tick
    \/ \E p \in Procs :
        \/ AddNextSequence(p)
        \/ AddAppend(p)
        \/ Return(p)

SpecRace == Init /\ [][NextRace]_vars

\* One caller that repeats NextSequence and Append, by add and by commit-beat,
\* while beats of other dates are moved in.
NextSeq ==
    \/ TickIdle
    \/ \E p \in {"p1"} :
        \/ AddNextSequence(p)
        \/ AddAppendOK(p)
        \/ CommitNextSequence(p)
        \/ CommitAppend(p)
        \/ MoveInOtherDate(p)
        \/ Return(p)

SpecSeq == Init /\ [][NextSeq]_vars

\* Two callers of one store that append, update and read.
NextLock ==
    \E p \in Procs :
        \/ AddNextSequence(p)
        \/ AddAppendOK(p)
        \/ Update(p)
        \/ RewriteSteps(p)
        \/ RwRename(p)
        \/ ReadAllSteps(p)
        \/ Return(p)

SpecLock == Init /\ [][NextLock]_vars

\* One caller on a log that is also edited from outside.
NextCorrupt ==
    \/ \E p \in {"p1"} :
         \/ AddNextSequence(p)
         \/ AddAppendOK(p)
         \/ Update(p)
         \/ RewriteSteps(p)
         \/ RwRename(p)
         \/ ReadAllSteps(p)
         \/ GetCall(p)
         \/ SearchCall(p)
         \/ Return(p)
    \/ Corrupt

SpecCorrupt == Init /\ [][NextCorrupt]_vars

\* The robot search command on a log that grows and is edited from outside.
NextHybrid ==
    \/ \E p \in {"p1"} :
         \/ AddNextSequence(p)
         \/ AddAppendOK(p)
         \/ RobotSearch(p)
         \/ Return(p)
    \/ Corrupt

SpecHybrid == Init /\ [][NextHybrid]_vars

\* Two callers that add and open the SQLite index.
NextSync ==
    \/ Tick
    \/ \E p \in Procs :
         \/ AddNextSequence(p)
         \/ AddAppendOK(p)
         \/ SyncIfNeeded(p)
         \/ SyncCommit(p)
         \/ Return(p)

SpecSync == Init /\ [][NextSync]_vars

\* One caller that adds and redates, another that redates, within one day.
NextRedate ==
    \/ AddNextSequence("p1")
    \/ AddAppendOK("p1")
    \/ \E p \in Procs :
        \/ Redate(p)
        \/ RewriteSteps(p)
        \/ RwRename(p)
        \/ Return(p)

SpecRedate == Init /\ [][NextRedate]_vars

\* Search as a function of the log: the store starts with a log of up to
\* MaxSearchRecs beats, made by add and by commit-beat on day 0, all of one
\* kind but for the first beat or the first one past the insertion sort.
SearchKinds ==
    {[label |-> l, content |-> c] :
        l \in {"Manual entry", "Robot"}, c \in Contents}

SearchBeat(kind, n) ==
    IF kind.label = "Robot"
    THEN ToBeat([content |-> kind.content, created_at |-> NoTime,
                 linked_beads |-> Nil], n, 0)
    ELSE AddBeat(kind.content, n, 0)

SearchLogs ==
    {[i \in 1..n |-> Marshal(SearchBeat(IF i = k THEN other ELSE base, i))] :
        n \in 0..MaxSearchRecs, k \in {1, InsertionSortMax + 1},
        base \in SearchKinds, other \in SearchKinds}

InitSearch ==
    /\ now = 0
    /\ fileExists = TRUE
    /\ file \in SearchLogs
    /\ tmpExists = FALSE
    /\ tmp = <<>>
    /\ mu = "none"
    /\ pc = [p \in Procs |-> "idle"]
    /\ seq = [p \in Procs |-> 0]
    /\ beats = [p \in Procs |-> <<>>]
    /\ call = [p \in Procs |-> NoCall]
    /\ processed = {}
    /\ retired = {}
    /\ db = [rows |-> {}, marker |-> NoMarker]
    /\ mtime = 0
    /\ emb = EmbInit
    /\ target = <<>>

NextSearch ==
    \E p \in {"p1"} :
        \/ SearchCall(p)
        \/ Return(p)

SpecSearch == InitSearch /\ [][NextSearch]_vars

(***************************************************************************)
(* Properties.                                                             *)
(***************************************************************************)
Created(p) == pc[p] = "done" /\ call[p].op \in {"add", "commit"} /\ call[p].ok

\* C1: no two records of the canonical log share an id, in any state reached
\* by add, commit-beat, the session-end hook, Update and Delete.
C1_UniqueIDs ==
    \A i, j \in 1..Len(ReadAll) : i # j => ReadAll[i].id # ReadAll[j].id

\* C2: two callers of one store that each ran NextSequence and then Append
\* hold records with different ids, whatever the interleaving.
C2_RaceDistinctIDs ==
    \A p, q \in Procs : p # q /\ Created(p) /\ Created(q)
        => call[p].id # call[q].id

\* C3: after Append(R) succeeded, Get(R.id) succeeds and returns a record
\* equal to R in every field, whatever else was appended before or after.
C3_AppendThenGet ==
    \A p \in Procs : Created(p)
        => Get(call[p].id) = [found |-> TRUE, beat |-> call[p].beat]

\* The number in an id, and the largest one the beats of date d carry.
SeqOf(id) == Atoi(id.digits)

SeqsFor(bs, d) == {SeqOf(bs[i].id) : i \in {k \in 1..Len(bs) : bs[k].id.date = d}}

MaxFor(bs, d) ==
    IF SeqsFor(bs, d) = {} THEN 0
    ELSE CHOOSE m \in SeqsFor(bs, d) : \A x \in SeqsFor(bs, d) : x <= m

\* The steps of a caller: NextSequence, the Append of a create, the rename
\* that ends a rewrite.
NextSequenceStep(p) == pc[p] = "idle" /\ pc'[p] \in {"add", "commit"}

CreateStep(p) ==
    pc[p] \in {"add", "commit"} /\ pc'[p] = "done" /\ call'[p].ok

InRewrite(p) == pc[p] \in {"rw_create", "rw_write", "rw_rename"}

Committed(p, op) ==
    pc[p] = "rw_rename" /\ pc'[p] = "done" /\ call'[p].op = op /\ call'[p].ok

\* C4: every record created for a date D carries the sequence number
\* (largest sequence number the log holds for D) + 1, so that N creations
\* for D from an empty store are numbered 1, 2, ..., N whatever records of
\* other dates lie between them.
C4_SequencePerDate ==
    [][\A p \in Procs : CreateStep(p)
          => SeqOf(call'[p].id) = MaxFor(ReadAll, call'[p].id.date) + 1]_vars

C6_NoReuseAfterDelete ==
    \A p \in Procs : Created(p) => call[p].id \notin retired

\* C7: no step of a rewrite but the rename that succeeds changes the log,
\* and that rename puts the complete new content in its place.
C7_RewriteAtomic ==
    [][\A p \in Procs : InRewrite(p)
          => IF pc'[p] = "done" /\ call'[p].ok
             THEN /\ fileExists'
                  /\ file' = [i \in 1..Len(beats[p]) |-> Marshal(beats[p][i])]
             ELSE UNCHANGED <<fileExists, file>>]_vars

\* C7 witness: a rewrite of two records has written one line of the temp
\* file, and the log still holds both records.
C7_HalfWritten ==
    \E p \in Procs :
        /\ pc[p] = "rw_write"
        /\ Len(tmp) = 1
        /\ Len(beats[p]) = 2
        /\ Len(file) = 2

\* C8: Update of an id no record has returns "beat not found", an updater
\* that fails makes Update return its error, and in both cases the step
\* leaves the log as it was.
C8_UpdateErrorNoChange ==
    [][\A p \in Procs : pc[p] = "idle" /\ call'[p].op = "update"
          => /\ FindFrom(ReadAll, call'[p].id, 1) = 0
                    => pc'[p] = "done" /\ call'[p].err = "beat not found"
             /\ pc'[p] = "done"
                    => /\ ~call'[p].ok
                       /\ call'[p].err \in {"beat not found", "updater failed"}
                       /\ UNCHANGED <<fileExists, file>>]_vars

\* C8 witness: an Update has returned the updater's error on a log that
\* holds records.
C8_UpdaterFailed ==
    \E p \in Procs :
        /\ pc[p] = "done"
        /\ call[p].op = "update"
        /\ call[p].err = "updater failed"
        /\ Len(file) >= 1

C10_LinkUpdateFrame ==
    [][\A p \in Procs : Committed(p, "update")
          => LET old == GetIn(ReadAll, call'[p].id).beat
                 new == GetIn(ReadAll', call'[p].id).beat
             IN  /\ new.id = old.id
                 /\ new.content = old.content
                 /\ new.created_at = old.created_at
                 /\ new.updated_at >= old.updated_at
                 /\ new.linked_beads.elems =
                        LinkUpdater(old.linked_beads, call'[p].arg).elems]_vars

\* C11: every record of the log has updated_at at or after created_at, also
\* when created_at was supplied by the caller and after an Update.
C11_UpdatedNotBeforeCreated ==
    \A i \in 1..Len(ReadAll) : ReadAll[i].updated_at >= ReadAll[i].created_at

\* C12: while a caller is inside ReadAll no step changes the log; while a
\* caller rewrites it holds the lock alone and only its rename changes the
\* log; ReadAll returns the whole log as it is when it returns; and the
\* rename of an Update changes, in the log as it is at that moment, only
\* the record it updates, so no other caller's change is lost.
C12_LockSerializes ==
    [][/\ mu # "none" => Readers = {}
       /\ \A p \in Procs :
            /\ pc[p] = "read" => UNCHANGED <<fileExists, file>>
            /\ InRewrite(p)
                 => /\ mu = p
                    /\ <<fileExists, file>>' # <<fileExists, file>>
                         => pc[p] = "rw_rename" /\ pc'[p] = "done"
            /\ pc[p] = "read" /\ pc'[p] = "done" /\ call'[p].ok
                 => call'[p].res = ReadAll
            /\ Committed(p, "update")
                 => LET bs == ReadAll
                        i == FindFrom(bs, call'[p].id, 1)
                    IN  /\ i > 0
                        /\ ReadAll' = [bs EXCEPT ![i] =
                             [@ EXCEPT
                                !.linked_beads =
                                    LinkUpdater(@, call'[p].arg),
                                !.updated_at = call'[p].beat.updated_at]]
      ]_vars

\* C12 witness: two callers are inside ReadAll together, each part-way
\* through a log of two records, while no writer holds the lock.
C12_TwoReaders ==
    /\ Readers = Procs
    /\ mu = "none"
    /\ Len(file) = 2
    /\ \A p \in Procs : call[p].line = 1

\* What a keyword search is to return, stated on the log: the beats whose
\* content or label contains the query without regard to case, 5 tenths a
\* field, those with 10 before those with 5, each group in log order.
FieldHit(str, query) == Contains(ToLower(Text(str)), ToLower(query))

Hits(bs, query, fields) ==
    SelectSeq([i \in 1..Len(bs) |->
                  [id |-> bs[i].id,
                   score |-> 5 * Cardinality({f \in {"content", "label"} :
                                                 FieldHit(bs[i][f], query)}),
                   content |-> bs[i].content, label |-> bs[i].label]],
              LAMBDA r : r.score = 5 * fields)

Ranked(bs, query) == Hits(bs, query, 2) \o Hits(bs, query, 1)

SearchStep(p) ==
    pc[p] = "idle" /\ pc'[p] = "done" /\ call'[p].op = "search" /\ call'[p].ok

\* C15: Search returns the records that match, scored 0.5 a field, those
\* matching both fields first and equal scores in log order; a limit only
\* cuts the end of that list.
C15_SearchRanking ==
    [][\A p \in Procs : SearchStep(p)
          => LET want == Ranked(ReadAll, call'[p].arg[1])
                 limit == call'[p].arg[2]
                 got == call'[p].res
             IN  /\ Len(got) <= Len(want)
                 /\ got = SubSeq(want, 1, Len(got))
                 /\ limit <= 0 \/ limit >= Len(want) => got = want]_vars

MatchCount(bs, query) ==
    Cardinality({i \in 1..Len(bs) :
                    FieldHit(bs[i].content, query)
                        \/ FieldHit(bs[i].label, query)})

\* C16 as the specification states it: a positive limit bounds the number
\* of results, and with a limit of 0 or below the default limit bounds it.
C16_DefaultCapApplied ==
    [][\A p \in Procs : SearchStep(p)
          => Len(call'[p].res) <=
                (IF call'[p].arg[2] > 0 THEN call'[p].arg[2]
                 ELSE DefaultMaxResults)]_vars

\* C16, amended: with a positive limit Search returns the matches up to the
\* limit, and with a limit of 0 or below it returns every match.
C16_LimitOrAll ==
    [][\A p \in Procs : SearchStep(p)
          => LET n == MatchCount(ReadAll, call'[p].arg[1])
                 limit == call'[p].arg[2]
             IN  Len(call'[p].res) =
                    (IF limit > 0 /\ limit < n THEN limit ELSE n)]_vars

\* C16 witness: a search with limit 0 has returned more results than the
\* default limit.
C16_AllReturned ==
    \E p \in Procs :
        /\ pc[p] = "done"
        /\ call[p].op = "search"
        /\ call[p].arg[2] = 0
        /\ Len(call[p].res) > DefaultMaxResults

(***************************************************************************)
(* C13                                                                     *)
(***************************************************************************)
\* The physical number of the first line that is neither blank nor a
\* record, 0 when the log has none.
FirstBad(lines) ==
    LET bad == {i \in 1..Len(lines) : ~IsBlank(lines[i]) /\ ~IsRecord(lines[i])}
    IN  IF bad = {} THEN 0 ELSE CHOOSE i \in bad : \A j \in bad : i <= j

\* A step of ReadAll, Get, Search, NextSequence or Update (not of Append).
ReadStep(p) ==
    /\ pc[p] \in {"idle", "read"}
    /\ <<pc[p], call[p]>> # <<pc'[p], call'[p]>>

\* The call of p ends with the error that names physical line n.
FailsAt(p, n) ==
    /\ pc'[p] = "done"
    /\ ~call'[p].ok
    /\ call'[p].err = ParseError
    /\ call'[p].line = n
    /\ call'[p].res = <<>>
    /\ call'[p].beat = NoBeat

\* C13: on a log with a non-blank line that does not parse, ReadAll does not
\* read past the first such line, and ReadAll, Get, Search, NextSequence and
\* Update end with no records and an error that names the 1-based physical
\* number of that line, and leave the log as it is.
C13_CorruptLogFails ==
    [][\A p \in Procs :
        (FirstBad(file) # 0 /\ ReadStep(p)) =>
            /\ file' = file
            /\ seq'[p] = seq[p]
            /\ \/ pc'[p] = "read" /\ call'[p].line < FirstBad(file)
               \/ FailsAt(p, FirstBad(file))]_vars

(***************************************************************************)
(* C14                                                                     *)
(***************************************************************************)
\* C14: whatever the hooks do after the line was written, Append returns
\* success and the new record is the last line of the log.
C14_HookFailureIgnored ==
    [][\A p \in Procs :
        (pc[p] # "done" /\ pc'[p] = "done" /\ call'[p].hook # "none") =>
            /\ call'[p].ok
            /\ call'[p].err = ""
            /\ file' = Append(file, Marshal(call'[p].beat))
            /\ GetIn(ReadLines(fileExists', file'), call'[p].id).found]_vars

\* C14 witness: an Append has returned success although the hook state
\* could not be saved, and another although the synthesis hook failed.
C14_HookFailed ==
    /\ pc["p1"] = "done" /\ call["p1"].hook = "save" /\ call["p1"].ok
    /\ pc["p2"] = "done" /\ call["p2"].hook = "synthesis" /\ call["p2"].ok
    /\ Get(call["p1"].id).found
    /\ Get(call["p2"].id).found

(***************************************************************************)
(* C17, C18                                                                *)
(***************************************************************************)
\* A RobotCLI.Search that passed its query on to HybridSearch.
HybridStep(p) ==
    /\ pc[p] = "idle"
    /\ pc'[p] = "done"
    /\ call'[p].op = "robot_search"
    /\ call'[p].arg[1] # <<>>

C18_NeverAnError ==
    [][\A p \in Procs : HybridStep(p) => call'[p].ok]_vars

\* C18: no failure of the semantic path makes HybridSearch return an error;
\* for a non-empty query it returns an error exactly when the keyword Search
\* fails because the log cannot be read.  The empty query is refused by the
\* search command and never reaches HybridSearch.
C18_ErrorOnlyFromLog ==
    [][\A p \in Procs :
        /\ HybridStep(p) =>
            /\ call'[p].ok <=> ReadErr.err = ""
            /\ ~call'[p].ok => call'[p].err = "search failed"
        /\ (pc[p] = "idle" /\ call'[p].op = "robot_search"
                /\ call'[p].arg[1] = <<>>) =>
            /\ pc'[p] = "done"
            /\ call'[p].err = "query is required"]_vars

\* C18 witness: the query could not be embedded and the call returned a
\* result and no error.
C18_SemanticErrorAbsorbed ==
    \E p \in Procs :
        /\ pc[p] = "done"
        /\ call[p].op = "robot_search"
        /\ call[p].arg[3]
        /\ call[p].env = "embed"
        /\ call[p].ok
        /\ call[p].err = ""

(***************************************************************************)
(* C19                                                                     *)
(***************************************************************************)
\* The records of the log, as rows.
LogRows == {Row(ReadAll[i]) : i \in 1..Len(ReadAll)}

\* C19: SyncIfNeeded rebuilds when there is no marker or the log is newer
\* than the marker; a rebuild that succeeds on a log nobody wrote since the
\* rebuild read it leaves one row for every record of the log, no other
\* row, and a new marker; when SyncIfNeeded finds the marker current the
\* rows are those of the log; a rebuild that fails leaves the rows and the
\* marker as they were.
C19_RebuildMatchesLog ==
    [][\A p \in Procs :
        /\ (pc[p] = "idle" /\ call'[p].op = "sync" /\ fileExists
                /\ ReadErr.err = ""
                /\ (db.marker = NoMarker \/ mtime > db.marker)) =>
            pc'[p] = "sync"
        /\ (pc[p] = "idle" /\ call'[p].op = "sync"
                /\ call'[p].mode = "current") =>
            /\ db.rows = LogRows
            /\ Cardinality(db.rows) = Len(ReadAll)
        /\ (pc[p] = "sync" /\ call'[p].ok /\ beats[p] = ReadAll) =>
            /\ db'.rows = LogRows
            /\ Cardinality(db'.rows) = Len(ReadAll)
            /\ db'.marker = MarkerTime
        /\ (pc[p] = "sync" /\ pc'[p] = "done" /\ ~call'[p].ok) =>
            db' = db]_vars

(***************************************************************************)
(* C20                                                                     *)
(***************************************************************************)
\* How often x occurs in the sequence s.
Count(s, x) == Cardinality({k \in 1..Len(s) : s[k] = x})

NoDuplicate(s) == \A k \in 1..Len(s) : Count(s, s[k]) = 1

\* The Update of a Link or LinkBeat call has applied its updater.
LinkStep(p) ==
    /\ pc[p] = "idle"
    /\ pc'[p] = "rw_create"
    /\ call'[p].op = "update"

\* C20: no record of the log carries a bead id twice in its links; a Link or
\* LinkBeat call adds an id the record does not carry once, however often
\* the call names it, and adds none that the record carries, so that a
\* repeated call leaves the links as they are.
C20_LinksAreASet ==
    [][/\ \A i \in 1..Len(ReadLines(fileExists', file')) :
            NoDuplicate(ReadLines(fileExists', file')[i].linked_beads.elems)
       /\ \A p \in Procs : LinkStep(p) =>
            LET old == Get(call'[p].id).beat.linked_beads.elems
                new == call'[p].beat.linked_beads.elems
                ids == call'[p].arg
            IN  /\ \A k \in 1..Len(ids) :
                        Count(new, ids[k]) =
                            IF Count(old, ids[k]) = 0 THEN 1
                            ELSE Count(old, ids[k])
                /\ SubSeq(new, 1, Len(old)) = old
                /\ (\A k \in 1..Len(ids) : Count(old, ids[k]) > 0) =>
                        new = old]_vars

(***************************************************************************)
(* C21                                                                     *)
(***************************************************************************)
\* C21: every record read back from the log has references and links that
\* are lists (possibly empty), never a nil slice.
C21_ListsNeverNil ==
    \A i \in 1..Len(ReadAll) :
        /\ ~ReadAll[i].references.nil
        /\ ~ReadAll[i].linked_beads.nil

(***************************************************************************)
(* C22                                                                     *)
(***************************************************************************)
IDsOf(bs) == {bs[i].id : i \in 1..Len(bs)}
Unique(bs) == Cardinality(IDsOf(bs)) = Len(bs)

MaxVecs == 3        \* vectors that embeddings.bin may hold
MaxBatch == 2       \* records handed to one ComputeMissing

Vecs == {<<FloatOne, FloatNaN>>, <<FloatNegZero, FloatZero>>}
WrongVecs == {<<>>, <<FloatOne>>, <<FloatOne, FloatOne, FloatNaN>>}

\* binary.LittleEndian.PutUint64(buf, math.Float64bits(v)): the eight bytes
\* of the bits, least significant first; Uint64 and Float64frombits undo it.
PutUint64(bits) == Reverse(bits)
\* A reader that takes the most significant byte first.
Uint64BigEndian(bytes) == bytes
Uint64(bytes) == Reverse(bytes)

\* The buffer Store fills: the components one after the other.
EncodeVec(v) ==
    [k \in 1..(Len(v) * BytesPerFloat) |->
        PutUint64(v[((k - 1) \div BytesPerFloat) + 1])[((k - 1) % BytesPerFloat) + 1]]

\* The loop of Get over the buffer it read.
DecodeVec(buf) ==
    [i \in 1..EmbeddingDimensions |->
        Uint64(SubSeq(buf, (i - 1) * BytesPerFloat + 1, i * BytesPerFloat))]

\* The offset map, as the set of its entries.
HasIn(index, id) == \E en \in index : en[1] = id
Lookup(index, id) == (CHOOSE en \in index : en[1] = id)[2]
Put(index, id, off) == {en \in index : en[1] # id} \cup {<<id, off>>}

Has(id) == HasIn(emb.index, id)

\* Store.Get: the offset from the map, io.ReadFull of one vector at it.
EmbGet(e, id) ==
    IF ~HasIn(e.index, id)
    THEN [op |-> "get", id |-> id, ok |-> FALSE, err |-> "no embedding",
          vec |-> <<>>]
    ELSE LET off == Lookup(e.index, id)
         IN IF off + VecBytes > Len(e.bin)
            THEN [op |-> "get", id |-> id, ok |-> FALSE,
                  err |-> "unexpected EOF", vec |-> <<>>]
            ELSE [op |-> "get", id |-> id, ok |-> TRUE, err |-> "",
                  vec |-> DecodeVec(SubSeq(e.bin, off + 1, off + VecBytes))]

VecGet(id) ==
    /\ emb.pc = "idle"
    /\ emb' = [emb EXCEPT !.ret = EmbGet(emb, id)]
    /\ UNCHANGED <<now, fsVars, mu, pc, seq, beats, call, processed, retired, db,
                 target>>

\* NewStore in a later command: loadIndex reads embeddings.idx into the map.
NewStore ==
    /\ emb.pc = "idle"
    /\ emb' = [emb EXCEPT !.index = emb.idx,
                          !.ret = [NoRet EXCEPT !.op = "open", !.ok = TRUE]]
    /\ UNCHANGED <<now, fsVars, mu, pc, seq, beats, call, processed, retired, db,
                 target>>

\* ComputeMissing's bookkeeping for the record it has just handled; out is
\* the history of what became of each record, sent the requests that went
\* to the provider for it.
Counted(b, kind) ==
    [b EXCEPT !.i = @ + 1,
              !.computed = IF kind = "computed" THEN @ + 1 ELSE @,
              !.skipped = IF kind = "skipped" THEN @ + 1 ELSE @,
              !.errors = IF kind = "error" THEN @ + 1 ELSE @,
              !.out = Append(@, kind)]

\* Store returns, to the command or to the batch that called it.
StoreReturn(e, ok, err) ==
    LET d == [e EXCEPT !.ret = [op |-> "store", id |-> e.cur.id, ok |-> ok,
                                err |-> err, vec |-> e.cur.vec],
                       !.cur = NoVec]
    IN IF e.caller = "batch"
       THEN [d EXCEPT !.pc = "cm_loop", !.batch = Counted(e.batch, IF ok THEN "computed"
                                                        ELSE "error")]
       ELSE [d EXCEPT !.pc = "idle", !.caller = "none"]

\* A Store that appends the vector before it looks at its length.
StoreEnterLate(e, id, v, ioOK) ==
    IF Len(v) # EmbeddingDimensions
    THEN StoreReturn([e EXCEPT !.rejected = TRUE,
                               !.bin = e.bin \o EncodeVec(v),
                               !.cur = [id |-> id, vec |-> v, offset |-> 0]],
                     FALSE, "expected dimensions")
    ELSE IF ~ioOK
    THEN StoreReturn([e EXCEPT !.failed = TRUE,
                               !.cur = [id |-> id, vec |-> v, offset |-> 0]],
                     FALSE, "open")
    ELSE [e EXCEPT !.pc = "st_write",
                   !.cur = [id |-> id, vec |-> v, offset |-> Len(e.bin)]]

\* Store up to the write: the length check, OpenFile, Stat for the offset.
StoreEnter(e, id, v, ioOK) ==
    IF Len(v) # EmbeddingDimensions
    THEN StoreReturn([e EXCEPT !.rejected = TRUE,
                               !.cur = [id |-> id, vec |-> v, offset |-> 0]],
                     FALSE, "expected dimensions")
    ELSE IF ~ioOK
    THEN StoreReturn([e EXCEPT !.failed = TRUE,
                               !.cur = [id |-> id, vec |-> v, offset |-> 0]],
                     FALSE, "open")
    ELSE [e EXCEPT !.pc = "st_write",
                   !.cur = [id |-> id, vec |-> v, offset |-> Len(e.bin)]]

EmbFrame == UNCHANGED <<now, fsVars, mu, pc, seq, beats, call, processed, retired, db,
                 target>>

\* A command calls Store.
VecStore(id, v) ==
    /\ emb.pc = "idle"
    /\ Len(emb.bin) + VecBytes <= MaxVecs * VecBytes
    /\ \E ioOK \in BOOLEAN :
        emb' = StoreEnter([emb EXCEPT !.caller = "direct"], id, v, ioOK)
    /\ EmbFrame

\* f.Write(buf): all of the buffer, or an error after part of it.
StoreWrite ==
    /\ emb.pc = "st_write"
    /\ \E n \in {0, BytesPerFloat, VecBytes} :
        LET buf == EncodeVec(emb.cur.vec)
            e == [emb EXCEPT !.bin = emb.bin \o SubSeq(buf, 1, n)]
        IN emb' = IF n = VecBytes
                  THEN [e EXCEPT !.pc = "st_save"]
                  ELSE StoreReturn([e EXCEPT !.failed = TRUE], FALSE,
                                   "write")
    /\ EmbFrame

\* s.index[beatID] = offset; return s.saveIndex().  os.WriteFile truncates
\* the file and writes the map in the order the iteration yields: a failure
\* leaves the old file (it was not opened) or some of the new entries.
StoreSave ==
    /\ emb.pc = "st_save"
    /\ LET index2 == Put(emb.index, emb.cur.id, emb.cur.offset)
           e == [emb EXCEPT !.index = index2]
       IN \/ emb' = StoreReturn(
                        [e EXCEPT !.idx = index2,
                                  !.latest = Put(emb.latest, emb.cur.id,
                                                 emb.cur.vec)],
                        TRUE, "")
          \/ \E part \in {emb.idx} \cup SUBSET index2 :
                /\ part # index2
                /\ emb' = StoreReturn([e EXCEPT !.idx = part, !.failed = TRUE],
                                      FALSE, "save index")
    /\ EmbFrame

StoreSteps == StoreWrite \/ StoreSave

NextVec ==
    \/ \E id \in EmbIDs, v \in Vecs \cup WrongVecs : VecStore(id, v)
    \/ StoreSteps
    \/ \E id \in EmbIDs : VecGet(id)
    \/ NewStore

SpecVec == Init /\ [][NextVec]_vars

\* C23: while every Store call has succeeded, Get(id) returns, bit for bit,
\* the vector of the latest Store(id, .) and fails with "no embedding" for
\* an id never stored; a successful Store leaves the id's offset at the copy
\* it appended; and embeddings.bin only ever grows, keeping what it held.
C23_GetReturnsLastStored ==
    [][ /\ Len(emb'.bin) >= Len(emb.bin)
        /\ SubSeq(emb'.bin, 1, Len(emb.bin)) = emb.bin
        /\ (emb.pc = "st_save" /\ emb'.ret.ok) =>
              /\ Lookup(emb'.index, emb.cur.id) = Len(emb.bin) - VecBytes
              /\ SubSeq(emb'.bin, Len(emb.bin) - VecBytes + 1, Len(emb.bin))
                    = EncodeVec(emb.cur.vec)
        /\ (emb'.pc = "idle" /\ ~emb'.failed) =>
              \A id \in EmbIDs :
                  IF HasIn(emb'.latest, id)
                  THEN /\ EmbGet(emb', id).ok
                       /\ EmbGet(emb', id).vec = Lookup(emb'.latest, id)
                  ELSE /\ ~EmbGet(emb', id).ok
                       /\ EmbGet(emb', id).err = "no embedding"
      ]_vars

\* C23 witness: two vectors were stored for e1 and none for e2, every call
\* succeeded, and Get(e1) has returned the second one.
C23_SecondCopyRead ==
    /\ ~emb.failed
    /\ ~emb.rejected
    /\ Len(emb.bin) = 2 * VecBytes
    /\ ~Has("e2")
    /\ DecodeVec(SubSeq(emb.bin, 1, VecBytes)) = <<FloatNegZero, FloatZero>>
    /\ emb.ret.op = "get"
    /\ emb.ret.id = "e1"
    /\ emb.ret.ok
    /\ emb.ret.vec = <<FloatOne, FloatNaN>>

\* A step in which a Store call is entered and returns at once.
StoreRefused ==
    /\ emb.pc \in {"idle", "cm_embed"}
    /\ emb'.ret.op = "store"
    /\ emb' # emb
    /\ emb'.pc \notin {"st_write", "st_save"}

\* C24: a Store whose vector has the wrong length returns an error and
\* changes nothing (no byte appended, the map and embeddings.idx as they
\* were, Has as before), and no vector of the wrong length is ever written.
C24_WrongLengthChangesNothing ==
    [][ /\ (StoreRefused /\ Len(emb'.ret.vec) # EmbeddingDimensions) =>
              /\ ~emb'.ret.ok
              /\ emb'.ret.err = "expected dimensions"
              /\ emb'.bin = emb.bin
              /\ emb'.index = emb.index
              /\ emb'.idx = emb.idx
              /\ \A id \in EmbIDs : HasIn(emb'.index, id) = HasIn(emb.index, id)
        /\ emb'.pc \in {"st_write", "st_save"} =>
              Len(emb'.cur.vec) = EmbeddingDimensions
      ]_vars

\* C24 witness: a vector of the wrong length was refused, and the Store of
\* a right one for e1 succeeded with its copy as the first in the file.
C24_StoreAfterRefusal ==
    /\ emb.rejected
    /\ ~emb.failed
    /\ emb.ret.op = "store"
    /\ emb.ret.id = "e1"
    /\ emb.ret.ok
    /\ emb.index = {<<"e1", 0>>}
    /\ Len(emb.bin) = VecBytes

(***************************************************************************)
(* ComputeMissing: one pass over the beats it is given.                    *)
(***************************************************************************)
RECURSIVE SeqsUpTo(_, _)
SeqsUpTo(S, n) ==
    IF n = 0 THEN {<<>>}
    ELSE LET shorter == SeqsUpTo(S, n - 1)
         IN shorter \cup {Append(q, x) : q \in shorter, x \in S}

BatchLists == SeqsUpTo(EmbIDs, MaxBatch)

\* What the provider may answer to a request that reached it.
Replies == {<<FloatOne, FloatNaN>>, <<FloatOne>>}

CMResult(ok, err) == [op |-> "compute", id |-> "", ok |-> ok, err |-> err,
                      vec |-> <<>>]

\* The call and its first statement: the batch is given up when
\* ollama.IsAvailable() says no.  ctx may already be cancelled.
ComputeMissing(bs) ==
    /\ emb.pc = "idle"
    /\ Len(emb.bin) + Len(bs) * VecBytes <= MaxVecs * VecBytes
    /\ \E avail \in BOOLEAN, done \in BOOLEAN :
        LET b == [NoBatch EXCEPT !.beats = bs, !.i = 1,
                                 !.sent = [k \in 1..Len(bs) |-> 0]]
        IN emb' = IF avail
                  THEN [emb EXCEPT !.pc = "cm_loop", !.caller = "batch",
                                   !.batch = b, !.cancelled = done]
                  ELSE [emb EXCEPT !.batch = b, !.cancelled = done,
                                   !.ret = CMResult(FALSE, "ollama not available")]
    /\ EmbFrame

\* A GetEmbedding that sends whatever the state of ctx.
GetEmbeddingNoContext(e) ==
    [e EXCEPT !.pc = "cm_embed", !.batch.sent[e.batch.i] = @ + 1]

\* GetEmbedding with ctx: http.Client.Do returns ctx.Err() without sending
\* when ctx is done, and sends the request otherwise.
GetEmbedding(e) ==
    IF e.cancelled
    THEN [e EXCEPT !.batch = Counted(@, "error")]
    ELSE [e EXCEPT !.pc = "cm_embed", !.batch.sent[e.batch.i] = @ + 1]

\* The head of the loop: the next beat, skipped when it has a vector.
CMLoop ==
    /\ emb.pc = "cm_loop"
    /\ emb' = IF emb.batch.i > Len(emb.batch.beats)
              THEN [emb EXCEPT !.pc = "idle", !.caller = "none",
                               !.ret = CMResult(TRUE, "")]
              ELSE IF Has(emb.batch.beats[emb.batch.i])
              THEN [emb EXCEPT !.batch = Counted(@, "skipped")]
              ELSE GetEmbedding(emb)
    /\ EmbFrame

\* A loop that ends the batch at the first error of the provider.
CMReplyAbort ==
    /\ emb.pc = "cm_embed"
    /\ \/ emb' = [emb EXCEPT !.pc = "idle", !.caller = "none",
                             !.batch = Counted(@, "error"),
                             !.ret = CMResult(TRUE, "")]
       \/ \E v \in Replies, ioOK \in BOOLEAN :
            emb' = StoreEnter(emb, emb.batch.beats[emb.batch.i], v, ioOK)
    /\ EmbFrame

\* The request comes back: an error (the provider's, a timeout, or ctx
\* cancelled meanwhile), or a vector, which goes to Store.
CMReply ==
    /\ emb.pc = "cm_embed"
    /\ \/ emb' = [emb EXCEPT !.pc = "cm_loop", !.batch = Counted(@, "error")]
       \/ \E v \in Replies, ioOK \in BOOLEAN :
            emb' = StoreEnter(emb, emb.batch.beats[emb.batch.i], v, ioOK)
    /\ EmbFrame

\* The caller cancels ctx while the batch runs.
Cancel ==
    /\ emb.caller = "batch"
    /\ ~emb.cancelled
    /\ emb' = [emb EXCEPT !.cancelled = TRUE]
    /\ EmbFrame

BatchSteps == CMLoop \/ CMReply \/ StoreSteps

NextBatch ==
    \/ \E bs \in BatchLists : ComputeMissing(bs)
    \/ BatchSteps
    \/ Cancel
    \/ VecStore("e1", <<FloatNegZero, FloatZero>>)

SpecBatch == Init /\ [][NextBatch]_vars

\* What a finished batch must show: every record handled once, requests
\* only for records that were not skipped and one at most, the three
\* counts adding up to the number of records, a vector for each computed one.
BatchAccounted(e) ==
    LET b == e.batch
        n == Len(b.beats)
    IN /\ e.ret.ok
       /\ Len(b.out) = n
       /\ b.computed + b.skipped + b.errors = n
       /\ \A k \in 1..n :
            /\ b.sent[k] <= 1
            /\ b.out[k] = "skipped" => b.sent[k] = 0
            /\ b.out[k] = "computed" =>
                  /\ b.sent[k] = 1
                  /\ EmbGet(e, b.beats[k]).ok

\* C27: batch embedding computation visits every given record exactly once,
\* asks the provider only for records without a vector and once at most,
\* goes on past every provider and store error, and returns counts with
\* computed + skipped + errors = number of records, each computed record
\* having a stored vector; no provider failure aborts the batch.
C27_BatchCountsEveryRecord ==
    (emb.pc = "idle" /\ emb.ret.op = "compute") => BatchAccounted(emb)

\* C27, amended: a batch either is refused whole at its start, with the
\* error "ollama not available", no counts and no record visited, or it
\* handles every record once and accounts for each as stated.
C27_LoopCountsEveryRecord ==
    (emb.pc = "idle" /\ emb.ret.op = "compute") =>
        IF emb.ret.ok
        THEN BatchAccounted(emb)
        ELSE /\ emb.ret.err = "ollama not available"
             /\ emb.batch.out = <<>>
             /\ emb.batch.computed + emb.batch.skipped + emb.batch.errors = 0
             /\ \A k \in 1..Len(emb.batch.beats) : emb.batch.sent[k] = 0

\* C27 witness: a batch of two records ended with an error for the first
\* and a computed vector for the second.
C27_ErrorDidNotAbort ==
    /\ emb.pc = "idle"
    /\ emb.ret.op = "compute"
    /\ emb.ret.ok
    /\ emb.batch.out = <<"error", "computed">>

\* Every entry of embeddings.idx points at one whole vector that a Store
\* wrote to embeddings.bin.
IndexComplete(e) ==
    \A en \in e.idx :
        /\ en[2] + VecBytes <= Len(e.bin)
        /\ DecodeVec(SubSeq(e.bin, en[2] + 1, en[2] + VecBytes))
              \in Vecs \cup Replies

\* C28: once ctx is cancelled no further request goes to the provider for
\* the records that remain, while a Store that is in progress can still take
\* each of its steps, and at every moment each id in embeddings.idx points at
\* a complete vector in embeddings.bin.
C28_CancelStopsRequests ==
    [][ /\ (emb.cancelled /\ emb.caller = "batch" /\ emb'.caller = "batch")
              => emb'.batch.sent = emb.batch.sent
        /\ emb.pc \in {"st_write", "st_save"} => ENABLED StoreSteps
        /\ (emb.cancelled /\ emb.pc \in {"st_write", "st_save"})
              => emb'.pc \in {"st_write", "st_save", "cm_loop", "idle"}
        /\ IndexComplete(emb')
      ]_vars

\* C28 witness: ctx was cancelled after the request for the first of two
\* records had gone out; its vector was stored and indexed, and the second
\* record ended as an error with no request sent.
C28_CancelledAfterFirst ==
    /\ emb.cancelled
    /\ emb.pc = "idle"
    /\ emb.ret.op = "compute"
    /\ emb.batch.beats = <<"e1", "e2">>
    /\ emb.batch.out = <<"computed", "error">>
    /\ emb.batch.sent = <<1, 0>>
    /\ emb.idx = {<<"e1", 0>>}
    /\ Len(emb.bin) = VecBytes

\* C25: whenever the rows of the index are not what a rebuild from the log
\* as it is now would give (the log was mutated since the rebuild read it,
\* be it before or after the rebuild wrote its marker), the index is stale:
\* the log's modification time is after the marker, so the next
\* SyncIfNeeded rebuilds and no Search answers from the earlier record set.
C25_MutationMakesStale ==
    (/\ db.marker # NoMarker
     /\ ReadErr.err = ""
     /\ db.rows # InsertAll({}, ReadAll, 1))
        => mtime > db.marker

(***************************************************************************)
(* SQLiteStore.Search: the ranked query over beats_fts, and searchLike,    *)
(* the LIKE query over beats that answers when the ranked one fails.       *)
(***************************************************************************)
FtsQueries == {<<>>, <<" ">>, <<"A", "L">>, <<"l", "%", "a">>, <<"z">>}
FtsLimits == {0, 1, 2}

\* strings.TrimSpace.
RECURSIVE TrimLeft(_)
TrimLeft(cs) ==
    IF cs # <<>> /\ Head(cs) = " " THEN TrimLeft(Tail(cs)) ELSE cs

TrimSpace(cs) == Reverse(TrimLeft(Reverse(TrimLeft(cs))))

\* The characters an FTS5 query may hold outside quotes.
Bareword(c) ==
    c \in {"a", "b", "e", "h", "l", "m", "n", "p", "r", "t", "u", "y", "z",
           "A", "L", "M", "_"}

\* MATCH query || '*' is a syntax error when the query is not made of
\* barewords.
Malformed(query) == \E i \in 1..Len(query) : ~Bareword(query[i])

\* The unicode61 tokenizer: lower-cased runs of letters and digits.
RECURSIVE Tokens(_, _)
Tokens(cs, word) ==
    IF cs = <<>> THEN (IF word = <<>> THEN {} ELSE {word})
    ELSE IF Head(cs) = " "
    THEN (IF word = <<>> THEN {} ELSE {word}) \cup Tokens(Tail(cs), <<>>)
    ELSE Tokens(Tail(cs), Append(word, LowerChar(Head(cs))))

HasPrefix(word, prefix) ==
    /\ Len(prefix) <= Len(word)
    /\ SubSeq(word, 1, Len(prefix)) = prefix

\* The tokens of a row in beats_fts: those of content and impetus_label,
\* and "beat" from the id (its date and number are digits).
RowTokens(r) ==
    Tokens(Text(r.content), <<>>) \cup Tokens(Text(r.impetus_label), <<>>)
        \cup {<<"b", "e", "a", "t">>}

\* beats_fts MATCH 'query*': a token of the row begins with the query.
Match(r, query) == \E w \in RowTokens(r) : HasPrefix(w, ToLower(query))

\* SQLite's LIKE: % is any run of characters, _ any one character, letters
\* compare without case.
RECURSIVE Like(_, _)
Like(pattern, text) ==
    IF pattern = <<>> THEN text = <<>>
    ELSE IF Head(pattern) = "%"
    THEN Like(Tail(pattern), text)
            \/ (text # <<>> /\ Like(pattern, Tail(text)))
    ELSE /\ text # <<>>
         /\ Head(pattern) = "_" \/ LowerChar(Head(pattern)) = LowerChar(Head(text))
         /\ Like(Tail(pattern), Tail(text))

\* WHERE content LIKE ? OR impetus_label LIKE ? OR impetus_raw LIKE ?, with
\* impetus_raw the empty string of the beats here.
LikeRow(r, query) ==
    LET pattern == <<"%">> \o query \o <<"%">>
    IN \/ Like(pattern, Text(r.content))
       \/ Like(pattern, Text(r.impetus_label))
       \/ Like(pattern, <<>>)

\* The score searchLike gives a row, in hundredths.
LikeScore(r, query) ==
    50 + (IF Contains(ToLower(Text(r.content)), ToLower(query)) THEN 25 ELSE 0)
       + (IF Contains(ToLower(Text(r.impetus_label)), ToLower(query))
          THEN 25 ELSE 0)

\* The rows of a result set in the orders a query may yield them.
Orders(S) ==
    {q \in [1..Cardinality(S) -> S] :
        \A i, j \in 1..Cardinality(S) : i # j => q[i] # q[j]}

\* LIMIT n: a negative n is no limit.
SqlLimit(q, n) == IF n < 0 \/ Len(q) <= n THEN q ELSE SubSeq(q, 1, n)

FtsResult(r, score) == [id |-> r.id, score |-> score, content |-> r.content]

\* searchLike.
searchLike(c, query, maxResults, ordered, likeOK) ==
    IF ~likeOK THEN [c EXCEPT !.err = "like query", !.env = "like error"]
    ELSE [c EXCEPT !.ok = TRUE,
                   !.res = [i \in 1..Len(SqlLimit(ordered, maxResults)) |->
                               FtsResult(ordered[i],
                                         LikeScore(ordered[i], query))]]

\* The score of a ranked row is -bm25(beats_fts), which the model leaves
\* open: every order of the matching rows is possible.
RankScore == "bm25"

\* Search after its SyncIfNeeded has returned.
FtsSearch(p) ==
    /\ pc[p] = "done"
    /\ call[p].op = "sync"
    /\ \E raw \in FtsQueries, maxResults \in FtsLimits,
          engineOK \in BOOLEAN, likeOK \in BOOLEAN :
        LET query == TrimSpace(raw)
            c == [NoCall EXCEPT !.op = "fts", !.arg = <<raw, maxResults>>]
        IN IF call[p].err # ""
           THEN call' = [call EXCEPT ![p] = [c EXCEPT !.err = call[p].err]]
           ELSE IF query = <<>>
           THEN call' = [call EXCEPT ![p] = [c EXCEPT !.ok = TRUE]]
           ELSE IF Malformed(query) \/ ~engineOK
           THEN \E ordered \in Orders({r \in db.rows : LikeRow(r, query)}) :
                    call' = [call EXCEPT ![p] =
                                searchLike([c EXCEPT !.fallback = TRUE],
                                           query, maxResults, ordered, likeOK)]
           ELSE \E ordered \in Orders({r \in db.rows : Match(r, query)}) :
                    call' = [call EXCEPT ![p] =
                        [c EXCEPT !.ok = TRUE,
                                  !.res = [i \in 1..Len(SqlLimit(ordered, maxResults))
                                              |-> FtsResult(ordered[i], RankScore)]]]
    /\ UNCHANGED <<now, fsVars, mu, pc, seq, beats, processed, retired, db, emb, target>>

\* A caller that adds and callers that search the SQLite index.
NextFts ==
    \/ AddNextSequence("p1")
    \/ AddAppendOK("p1")
    \/ \E p \in Procs :
         \/ SyncIfNeeded(p)
         \/ SyncCommit(p)
         \/ FtsSearch(p)
         \/ Return(p)

SpecFts == Init /\ [][NextFts]_vars

\* The rows a substring scan for the query finds: the query, as it stands,
\* occurs in the content or the label, letters compared without case.
ScanRows(rows, query) ==
    {r \in rows :
        \/ Contains(ToLower(Text(r.content)), ToLower(query))
        \/ Contains(ToLower(Text(r.impetus_label)), ToLower(query))}

\* C26: a Search whose ranked query failed does not return that failure:
\* unless the scan's own query failed too, it succeeds, and its results are
\* the rows in which the query occurs as a substring, maxResults at most.
C26_FallbackIsSubstringScan ==
    [][ \A p \in Procs :
          (/\ call[p].op = "sync"
           /\ call'[p].op = "fts"
           /\ call'[p].fallback
           /\ call'[p].env # "like error") =>
              LET query == TrimSpace(call'[p].arg[1])
                  n == call'[p].arg[2]
                  found == {call'[p].res[i].id : i \in 1..Len(call'[p].res)}
                  scan == {r.id : r \in ScanRows(db.rows, query)}
              IN /\ call'[p].ok
                 /\ found \subseteq scan
                 /\ Len(call'[p].res) = Cardinality(found)
                 /\ Len(call'[p].res) =
                       IF Cardinality(scan) <= n THEN Cardinality(scan) ELSE n
      ]_vars

\* With the ranked query failing, no error other than the scan's own
\* reaches the caller, and what is returned are rows the LIKE pattern
\* selects, maxResults at most.
C26_NoRankingError ==
    \A p \in Procs :
        (call[p].op = "fts" /\ call[p].fallback) =>
            /\ call[p].err \in {"", "like query"}
            /\ call[p].err = "" => call[p].ok
            /\ Len(call[p].res) <= call[p].arg[2]

\* A ranked query failed for the query "AL" and the scan returned alpha,
\* which has it in its content and in its label.
C26_FallbackAnswered ==
    \E p \in Procs :
        /\ call[p].op = "fts"
        /\ call[p].fallback
        /\ call[p].ok
        /\ call[p].arg[1] = <<"A", "L">>
        /\ Len(call[p].res) = 1
        /\ call[p].res[1].content = "alpha"
        /\ call[p].res[1].score = 100

(***************************************************************************)
(* HumanCLI.Move: Get from the store, Append to the store of the target    *)
(* directory, Delete from the store.                                       *)
(***************************************************************************)
MoveFrame == UNCHANGED <<now, fsVars, seq, processed, retired, db, emb>>

\* c.store.Get(id).  The history arg keeps what the log held at this point.
MoveGet(p) ==
    /\ pc[p] = "idle"
    /\ CanRLock
    /\ \E id \in KnownIDs :
        LET c == [NoCall EXCEPT !.op = "move", !.id = id, !.arg = ReadAll]
            g == GetIn(ReadAll, id)
        IN  IF ReadErr.err # ""
            THEN Finish(p, [c EXCEPT !.err = ReadErr.err,
                                     !.line = ReadErr.line])
            ELSE IF g.found
            THEN /\ pc' = [pc EXCEPT ![p] = "mv_append"]
                 /\ call' = [call EXCEPT ![p] = [c EXCEPT !.beat = g.beat]]
            ELSE Finish(p, [c EXCEPT !.err = "beat not found"])
    /\ UNCHANGED <<mu, beats, target>>
    /\ MoveFrame

\* store.NewJSONLStore(targetDir) and targetStore.Append(b).
MoveAppend(p) ==
    /\ pc[p] = "mv_append"
    /\ \E openOK \in BOOLEAN, ioOK \in BOOLEAN :
        IF ~openOK
        THEN /\ Finish(p, [call[p] EXCEPT
                              !.err = "failed to open target directory"])
             /\ UNCHANGED target
        ELSE IF ~ioOK
        THEN /\ Finish(p, [call[p] EXCEPT !.err = "failed to write to target"])
             /\ UNCHANGED target
        ELSE /\ Len(target) < MaxRecs
             /\ target' = Append(target, Marshal(call[p].beat))
             /\ pc' = [pc EXCEPT ![p] = "mv_delete"]
             /\ UNCHANGED call
    /\ UNCHANGED <<mu, beats>>
    /\ MoveFrame

\* c.store.Delete(id), up to the rewrite.
MoveDelete(p) ==
    /\ pc[p] = "mv_delete"
    /\ CanLock
    /\ LET bs == ReadAll
       IN  IF ReadErr.err # "" \/ FindFrom(bs, call[p].id, 1) = 0
           THEN /\ Finish(p, [call[p] EXCEPT
                                 !.err = "failed to delete from source"])
                /\ UNCHANGED <<mu, beats>>
           ELSE /\ mu' = p
                /\ pc' = [pc EXCEPT ![p] = "rw_create"]
                /\ beats' = [beats EXCEPT ![p] = Without(bs, call[p].id)]
                /\ UNCHANGED call
    /\ UNCHANGED target
    /\ MoveFrame

MoveSteps(p) == MoveGet(p) \/ MoveAppend(p) \/ MoveDelete(p)

\* Two callers that add, one that moves.
NextMove ==
    \/ \E p \in Procs :
         \/ AddNextSequence(p)
         \/ AddAppendOK(p)
         \/ Return(p)
    \/ MoveSteps("p1")
    \/ RewriteSteps("p1")
    \/ RwRename("p1")

SpecMove == Init /\ [][NextMove]_vars

\* A record, as it is read back, is among the records of a log.
InLog(b, bs) == \E j \in 1..Len(bs) : bs[j] = b

TargetAll == ReadLines(TRUE, target)

\* Each record the source held when p got its record is in the source or
\* in the target.
NoneLost(p) ==
    \A i \in 1..Len(call[p].arg) :
        InLog(call[p].arg[i], ReadAll) \/ InLog(call[p].arg[i], TargetAll)

\* The record p moved is in the target as it was, and its id is not in the
\* source.
MovedOver(p) ==
    LET moved == GetIn(call[p].arg, call[p].id).beat
    IN /\ InLog(moved, TargetAll)
       /\ \A j \in 1..Len(ReadAll) : ReadAll[j].id # call[p].id

InMove(p) ==
    /\ call[p].op = "move"
    /\ pc[p] # "idle"
    /\ GetIn(call[p].arg, call[p].id).found

C29_MoveNeverLosesUnique ==
    [][ \A p \in Procs :
          Unique(call'[p].arg) =>
              /\ InMove(p)' => NoneLost(p)'
              /\ Committed(p, "move") => MovedOver(p)'
      ]_vars

\* A Move out of a source of two records with two ids has succeeded.
C29_Moved ==
    \E p \in Procs :
        /\ InMove(p)
        /\ pc[p] = "done"
        /\ call[p].ok
        /\ Len(call[p].arg) = 2
        /\ call[p].arg[1].id # call[p].arg[2].id
        /\ Len(ReadAll) = 1
        /\ Len(TargetAll) = 1

(***************************************************************************)
(* HumanCLI.MigrateConsolidate: the beats of a scattered store are written *)
(* to the log as JSON objects with one more key, _legacy_context.          *)
(***************************************************************************)
MigratedBeats == {AddBeat("beta", n, 0) : n \in {1, MaxSeq}}

\* json.Marshal(beatMap) after beatMap["_legacy_context"] = legacyContext.
MarshalLegacy(b) ==
    [id |-> b.id, created_at |-> b.created_at, updated_at |-> b.updated_at,
     label |-> b.label, content |-> b.content,
     references |-> OmitEmpty(b.references),
     linked_beads |-> OmitEmpty(b.linked_beads),
     session_id |-> b.session_id,
     legacy_context |-> "wald_directory"]

\* One scattered store of one beat: skipped when the log has its id with an
\* updated_at that is not older, appended otherwise, past the store's lock.
MigrateConsolidate ==
    /\ \E b \in MigratedBeats :
        LET g == GetIn(ReadAll, b.id)
        IN  IF g.found /\ ~(b.updated_at > g.beat.updated_at)
            THEN UNCHANGED <<fileExists, file, mtime>>
            ELSE /\ Len(file) < MaxRecs
                 /\ fileExists' = TRUE
                 /\ file' = Append(file, MarshalLegacy(b))
                 /\ mtime' = ModTime
    /\ UNCHANGED <<now, tmpExists, tmp, mu, pc, seq, beats, call, processed,
                   retired, db, emb, target>>

\* One caller that adds, a migration, two callers that update.
NextMigrate ==
    \/ AddNextSequence("p1")
    \/ AddAppendOK("p1")
    \/ MigrateConsolidate
    \/ \E p \in Procs :
         \/ Update(p)
         \/ RewriteSteps(p)
         \/ RwRename(p)
         \/ Return(p)

SpecMigrate == Init /\ [][NextMigrate]_vars

\* The lines of the log that are records, in order.
Records(lines) == SelectSeq(lines, IsRecord)

\* C30: a successful Update (no line coming into the log while it rewrites)
\* changes only the first record with the id: the log holds as many
\* records, in the same order, and every other record is stored, and read
\* back, as it was stored before the Update.
C30_UpdateChangesOneRecord ==
    [][ \A p \in Procs :
          (Committed(p, "update") /\ Len(ReadAll) = Len(beats[p])) =>
              LET before == Records(file)
                  after == Records(file')
                  k == FindFrom(ReadLines(TRUE, before), call'[p].id, 1)
              IN /\ Len(after) = Len(before)
                 /\ k > 0
                 /\ Unmarshal(after[k]) = call'[p].beat
                 /\ \A i \in 1..Len(before) :
                       i # k => /\ after[i] = before[i]
                                /\ Unmarshal(after[i]) = Unmarshal(before[i])
      ]_vars

\* The same, of the records as ReadAll hands them out.
C30_UpdateChangesOneRead ==
    [][ \A p \in Procs :
          (Committed(p, "update") /\ Len(ReadAll) = Len(beats[p])) =>
              LET before == ReadAll
                  after == ReadAll'
                  k == FindFrom(before, call'[p].id, 1)
              IN /\ Len(after) = Len(before)
                 /\ k > 0
                 /\ after[k] = call'[p].beat
                 /\ \A i \in 1..Len(before) : i # k => after[i] = before[i]
      ]_vars
====
